---- MODULE Spec2Model ----
(***************************************************************************)
(* A model of lazyliner's interactive view/state engine: the Bubble Tea    *)
(* orchestrator of internal/app/app.go (Model.Update and the handlers it   *)
(* calls), the Kanban, List and Picker view models it drives, and the pure *)
(* sorting and de-duplication functions.                                   *)
(***************************************************************************)
EXTENDS Integers, Sequences, FiniteSets, TLC

VARIABLES
    \* ---- inputs and result of the pure functions (specification SpecSort)
    fnPc,       \* "idle" | "input" | "sorted" | "resorted" | "appended"
    fnIn,       \* the list handed to sortIssues / the existing list
    fnPage,     \* the page handed to appendUniqueIssues
    fnOut,      \* the result
    \* ---- the running program (specification Spec)
    app,        \* the current app.Model
    inflight,   \* the commands handed to the runtime and not yet completed
    lastCmds,   \* the commands the last Update returned
    lastMsg,    \* the message of the last Update
    fate,       \* "ok" while the program runs, "quit" or "panic" once ended
    pressed     \* how many keys the user has pressed

fnVars == <<fnPc, fnIn, fnPage, fnOut>>

(***************************************************************************)
(* Data: linear.Issue and linear.WorkflowState.  An issue keeps the fields *)
(* the engine reads: ID, State (a pointer, absent as NoState), Priority,   *)
(* UpdatedAt and Assignee (a pointer, absent as NoUser).                   *)
(***************************************************************************)
NoState == "none"
NoUser == "nobody"

\* The workflow states of the remote service, one per type tag the code
\* distinguishes plus one with a type the code does not know.
StateType(sid) ==
    CASE sid = "s_started" -> "started"
      [] sid = "s_unstarted" -> "unstarted"
      [] sid = "s_backlog" -> "backlog"
      [] sid = "s_triage" -> "triage"
      [] sid = "s_completed" -> "completed"
      [] sid = "s_canceled" -> "canceled"
      [] OTHER -> "custom"

AllStateIds ==
    {"s_started", "s_unstarted", "s_backlog", "s_triage", "s_completed",
     "s_canceled", "s_custom"}

Issue(id, state, priority, updatedAt, assignee) ==
    [id |-> id, state |-> state, priority |-> priority,
     updatedAt |-> updatedAt, assignee |-> assignee]

(***************************************************************************)
(* Sequence helpers.                                                       *)
(***************************************************************************)
Range(s) == {s[i] : i \in DOMAIN s}

Ids(s) == {s[i].id : i \in DOMAIN s}

SeqsUpTo(S, n) == UNION {[1..k -> S] : k \in 0..n}

DistinctIds(s) == \A i, j \in DOMAIN s : s[i].id = s[j].id => i = j

(***************************************************************************)
(* stateTypePriority, app.go 1450-1467.                                    *)
(***************************************************************************)
stateTypePriorityNoCompletedLast(stateType) ==
    CASE stateType = "started" -> 0
      [] stateType = "unstarted" -> 1
      [] stateType = "backlog" -> 2
      [] stateType = "triage" -> 3
      [] stateType = "completed" -> 3
      [] stateType = "canceled" -> 5
      [] OTHER -> 3

stateTypePriority(stateType) ==
    CASE stateType = "started" -> 0
      [] stateType = "unstarted" -> 1
      [] stateType = "backlog" -> 2
      [] stateType = "triage" -> 3
      [] stateType = "completed" -> 4
      [] stateType = "canceled" -> 5
      [] OTHER -> 3

(***************************************************************************)
(* The comparator of sortIssues, app.go 1475-1515: less(a, b).             *)
(***************************************************************************)
IssueStateType(issue) ==
    IF issue.state # NoState THEN StateType(issue.state) ELSE "unstarted"

PriorityRank(p) == IF p = 0 THEN 5 ELSE p

issueLessIgnoringUpdated(a, b) ==
    LET spA == stateTypePriority(IssueStateType(a))
        spB == stateTypePriority(IssueStateType(b))
        pA == PriorityRank(a.priority)
        pB == PriorityRank(b.priority)
    IN  IF spA # spB THEN spA < spB
        ELSE IF pA # pB THEN pA < pB
        ELSE a.updatedAt >= b.updatedAt

issueLess(a, b) ==
    LET spA == stateTypePriority(IssueStateType(a))
        spB == stateTypePriority(IssueStateType(b))
        pA == PriorityRank(a.priority)
        pB == PriorityRank(b.priority)
    IN  IF spA # spB THEN spA < spB
        ELSE IF pA # pB THEN pA < pB
        ELSE a.updatedAt > b.updatedAt

(***************************************************************************)
(* sortIssues, app.go 1471-1518: a copy of the input, sorted by            *)
(* sort.SliceStable under issueLess.  A stable sort's result is fixed by   *)
(* the comparator; it is computed here by stable insertion.                *)
(***************************************************************************)
RECURSIVE InsertStable(_, _)
\* x goes after every entry it is not less than.
InsertStable(sorted, x) ==
    IF sorted = <<>> THEN <<x>>
    ELSE IF issueLess(x, Head(sorted)) THEN <<x>> \o sorted
    ELSE <<Head(sorted)>> \o InsertStable(Tail(sorted), x)

RECURSIVE StableSort(_)
StableSort(s) ==
    IF s = <<>> THEN <<>>
    ELSE InsertStable(StableSort(SubSeq(s, 1, Len(s) - 1)), s[Len(s)])

\* The list as it is handed in.
sortIssuesKeepingOrder(issuesList) == issuesList

sortIssues(issuesList) == StableSort(issuesList)

(***************************************************************************)
(* appendUniqueIssues, app.go 1433-1446.                                   *)
(***************************************************************************)
RECURSIVE AppendUniqueFrom(_, _, _)
AppendUniqueFrom(result, seen, newIssues) ==
    IF newIssues = <<>> THEN result
    ELSE LET issue == Head(newIssues)
         IN  IF issue.id \notin seen
             THEN AppendUniqueFrom(Append(result, issue), seen \cup {issue.id},
                                   Tail(newIssues))
             ELSE AppendUniqueFrom(result, seen, Tail(newIssues))

appendAllIssues(existing, newIssues) == existing \o newIssues

appendUniqueIssues(existing, newIssues) ==
    AppendUniqueFrom(existing, Ids(existing), newIssues)

\* The append branch of the IssuesLoadedMsg handler, app.go 476-481.
applyAppendedPage(existing, newIssues) ==
    sortIssues(appendUniqueIssues(existing, newIssues))

(***************************************************************************)
(* Text: a string as the sequence of its characters, so that substring     *)
(* search and lower-casing are computed.                                   *)
(***************************************************************************)
Lower(c) ==
    CASE c = "A" -> "a"
      [] c = "B" -> "b"
      [] c = "D" -> "d"
      [] c = "W" -> "w"
      [] c = "X" -> "x"
      [] OTHER -> c

ToLower(text) == [i \in DOMAIN text |-> Lower(text[i])]

\* strings.Contains
Contains(text, sub) ==
    \E i \in 0..(Len(text) - Len(sub)) : SubSeq(text, i + 1, i + Len(sub)) = sub

RECURSIVE TrimLeft(_)
TrimLeft(text) ==
    IF text # <<>> /\ Head(text) = " " THEN TrimLeft(Tail(text)) ELSE text

RECURSIVE TrimRight(_)
TrimRight(text) ==
    IF text # <<>> /\ text[Len(text)] = " "
    THEN TrimRight(SubSeq(text, 1, Len(text) - 1))
    ELSE text

\* strings.TrimSpace
TrimSpace(text) == TrimRight(TrimLeft(text))

(***************************************************************************)
(* The catalogs of the remote service.                                     *)
(***************************************************************************)
WorkflowState(id, name, position) ==
    [id |-> id, name |-> name, type |-> StateType(id), position |-> position]

\* What GetWorkflowStates returns for the first team, in the remote order.
TeamStates ==
    << WorkflowState("s_completed", <<"D", "o", "n", "e">>, 1),
       WorkflowState("s_started", <<"W", "i", "p">>, 0) >>

\* What GetUsers returns.
TeamUsers == << [id |-> "u1", name |-> <<"D", "a", "n", "a">>] >>

\* What GetProjects returns.
TeamProjects == << [id |-> "p1", name |-> <<"A", "b">>] >>

NoProject == "noproject"

(***************************************************************************)
(* issues.ListModel, list.go.                                              *)
(***************************************************************************)
\* The page size with no fallback for a height below 3.
ListPageSizeNoFallback(height) == height - 2

ListPageSize(height) == IF height - 2 < 1 THEN 10 ELSE height - 2

NewListModel(issueList, width, height) ==
    [issues |-> issueList, cursor |-> 0, offset |-> 0, width |-> width,
     height |-> height, pageSize |-> ListPageSize(height), hasMore |-> FALSE]

\* NewListModelWithPagination: NewListModel plus the has-more flag the
\* footer shows.
NewListModelWithPagination(issueList, width, height, hasMore) ==
    [NewListModel(issueList, width, height) EXCEPT !.hasMore = hasMore]

NoIssue == Issue(0, NoState, 0, 0, NoUser)

\* ListModel.SelectedIssue (nil as NoIssue); cursors count from 0.
ListSelectedIssue(lv) ==
    IF lv.cursor >= 0 /\ lv.cursor < Len(lv.issues)
    THEN lv.issues[lv.cursor + 1]
    ELSE NoIssue

\* ListModel.View, list.go 107-158: the placeholder of an empty list, else
\* the rows offset .. end - 1, the cursor's row marked.
ListView(lv) ==
    IF Len(lv.issues) = 0
    THEN [placeholder |-> "No issues found", rows |-> <<>>]
    ELSE LET end == IF lv.offset + lv.pageSize > Len(lv.issues)
                    THEN Len(lv.issues) ELSE lv.offset + lv.pageSize
         IN  [placeholder |-> "",
              rows |-> [i \in 1..(end - lv.offset) |->
                          [issue |-> lv.issues[lv.offset + i],
                           isSelected |-> lv.offset + i - 1 = lv.cursor]]]

\* ListModel.Update on a key.
ListUpdate(lv, key) ==
    CASE key \in {"up", "k"} ->
            IF lv.cursor > 0
            THEN [lv EXCEPT !.cursor = lv.cursor - 1,
                            !.offset = IF lv.cursor - 1 < lv.offset
                                       THEN lv.cursor - 1 ELSE lv.offset]
            ELSE lv
      [] key \in {"down", "j"} ->
            IF lv.cursor < Len(lv.issues) - 1
            THEN [lv EXCEPT !.cursor = lv.cursor + 1,
                            !.offset = IF lv.cursor + 1 >= lv.offset + lv.pageSize
                                       THEN lv.cursor + 1 - lv.pageSize + 1
                                       ELSE lv.offset]
            ELSE lv
      [] key \in {"home", "g"} -> [lv EXCEPT !.cursor = 0, !.offset = 0]
      [] key \in {"end", "G"} ->
            LET c == Len(lv.issues) - 1
            IN  [lv EXCEPT !.cursor = c,
                           !.offset = IF c >= lv.pageSize
                                      THEN c - lv.pageSize + 1 ELSE lv.offset]
      [] key \in {"pgup", "ctrl+u"} ->
            LET c == IF lv.cursor - lv.pageSize < 0 THEN 0
                     ELSE lv.cursor - lv.pageSize
            IN  [lv EXCEPT !.cursor = c, !.offset = c]
      [] key \in {"pgdown", "ctrl+d"} ->
            LET c == IF lv.cursor + lv.pageSize >= Len(lv.issues)
                     THEN Len(lv.issues) - 1 ELSE lv.cursor + lv.pageSize
            IN  [lv EXCEPT !.cursor = c,
                           !.offset = IF c >= lv.offset + lv.pageSize
                                      THEN c - lv.pageSize + 1 ELSE lv.offset]
      [] OTHER -> lv

(***************************************************************************)
(* issues.DetailModel, detail.go.                                          *)
(***************************************************************************)
NewDetailModel(issue, width, height) ==
    [issue |-> issue, width |-> width, height |-> height, scrollY |-> 0,
     maxScrollY |-> 0]

DetailUpdate(dv, key) ==
    CASE key \in {"up", "k"} ->
            IF dv.scrollY > 0 THEN [dv EXCEPT !.scrollY = dv.scrollY - 1] ELSE dv
      [] key \in {"down", "j"} ->
            IF dv.scrollY < dv.maxScrollY
            THEN [dv EXCEPT !.scrollY = dv.scrollY + 1] ELSE dv
      [] key \in {"home", "g"} -> [dv EXCEPT !.scrollY = 0]
      [] key \in {"end", "G"} -> [dv EXCEPT !.scrollY = dv.maxScrollY]
      [] OTHER -> dv

(***************************************************************************)
(* components.PickerModel, picker.go.  NoPicker is the nil pointer.        *)
(***************************************************************************)
PickerCharLimit == 50

PickerItem(id, label) == [id |-> id, label |-> label, desc |-> <<>>]

NoPicker == [title |-> "", items |-> <<>>, filteredItems |-> <<>>,
             cursor |-> 0, query |-> <<>>, open |-> FALSE]

NoItem == PickerItem("<nil>", <<>>)

NewPickerModel(title, items) ==
    [title |-> title, items |-> items, filteredItems |-> items, cursor |-> 0,
     query |-> <<>>, open |-> TRUE]

\* The keys the text input takes as text: the printable characters.
IsRune(key) == Len(key) = 1

\* textinput.Update: a rune is appended up to the character limit,
\* backspace deletes the last character.
TextInputUpdate(value, key, limit) ==
    IF IsRune(key)
    THEN IF Len(value) < limit THEN Append(value, key) ELSE value
    ELSE IF key = "backspace" /\ value # <<>>
    THEN SubSeq(value, 1, Len(value) - 1)
    ELSE value

RECURSIVE FilterPickerItems(_, _)
FilterPickerItems(items, query) ==
    IF items = <<>> THEN <<>>
    ELSE LET item == Head(items)
             rest == FilterPickerItems(Tail(items), query)
         IN  IF \/ Contains(ToLower(item.label), query)
                \/ Contains(ToLower(item.desc), query)
             THEN <<item>> \o rest
             ELSE rest

\* PickerModel.filterItems leaving the candidates alone when the search
\* text is empty.
PickerFilterItemsKeepingOnEmpty(pk) ==
    LET query == ToLower(TrimSpace(pk.query))
    IN  IF query = <<>> THEN pk
        ELSE LET filtered == FilterPickerItems(pk.items, query)
             IN  [pk EXCEPT !.filteredItems = filtered,
                            !.cursor = IF pk.cursor >= Len(filtered)
                                       THEN 0 ELSE pk.cursor]

\* PickerModel.filterItems
PickerFilterItems(pk) ==
    LET query == ToLower(TrimSpace(pk.query))
    IN  IF query = <<>> THEN [pk EXCEPT !.filteredItems = pk.items]
        ELSE LET filtered == FilterPickerItems(pk.items, query)
             IN  [pk EXCEPT !.filteredItems = filtered,
                            !.cursor = IF pk.cursor >= Len(filtered)
                                       THEN 0 ELSE pk.cursor]

\* PickerModel.Update on a key (enter only records the selection).
PickerUpdate(pk, key) ==
    CASE key \in {"up", "ctrl+k"} ->
            IF pk.cursor > 0 THEN [pk EXCEPT !.cursor = pk.cursor - 1] ELSE pk
      [] key \in {"down", "ctrl+j"} ->
            IF pk.cursor < Len(pk.filteredItems) - 1
            THEN [pk EXCEPT !.cursor = pk.cursor + 1] ELSE pk
      [] key = "enter" -> pk
      [] key \in {"home", "ctrl+g"} -> [pk EXCEPT !.cursor = 0]
      [] key = "end" ->
            IF Len(pk.filteredItems) > 0
            THEN [pk EXCEPT !.cursor = Len(pk.filteredItems) - 1] ELSE pk
      [] OTHER ->
            PickerFilterItems(
                [pk EXCEPT !.query = TextInputUpdate(pk.query, key,
                                                     PickerCharLimit)])

\* PickerModel.View, picker.go 141-145: the number of candidates one frame
\* has room for.
PickerMaxVisibleItems(height) == IF height - 10 < 5 THEN 5 ELSE height - 10

\* The scroll window starting at the cursor.
PickerWindowFromCursor(pk, height) ==
    LET n == Len(pk.filteredItems)
        maxVisibleItems == PickerMaxVisibleItems(height)
    IN  IF n > maxVisibleItems
        THEN [startIdx |-> pk.cursor,
              endIdx |-> IF pk.cursor + maxVisibleItems > n THEN n
                         ELSE pk.cursor + maxVisibleItems]
        ELSE [startIdx |-> 0, endIdx |-> n]

\* PickerModel.View, picker.go 155-172: the scroll window, the candidates
\* startIdx .. endIdx - 1.
PickerWindow(pk, height) ==
    LET n == Len(pk.filteredItems)
        maxVisibleItems == PickerMaxVisibleItems(height)
        halfWindow == maxVisibleItems \div 2
        start0 == IF pk.cursor > halfWindow THEN pk.cursor - halfWindow ELSE 0
        end0 == start0 + maxVisibleItems
    IN  IF n > maxVisibleItems
        THEN IF end0 > n
             THEN [startIdx |-> IF n - maxVisibleItems < 0 THEN 0
                                ELSE n - maxVisibleItems,
                   endIdx |-> n]
             ELSE [startIdx |-> start0, endIdx |-> end0]
        ELSE [startIdx |-> 0, endIdx |-> n]

\* PickerModel.View, picker.go 174-195: the candidates the frame lists
\* (none under "No matches found").
PickerView(pk, height) ==
    LET w == PickerWindow(pk, height)
    IN  SubSeq(pk.filteredItems, w.startIdx + 1, w.endIdx)

\* PickerModel.SelectedItem (nil as NoItem)
PickerSelectedItem(pk) ==
    IF pk.cursor >= 0 /\ pk.cursor < Len(pk.filteredItems)
    THEN pk.filteredItems[pk.cursor + 1]
    ELSE NoItem

(***************************************************************************)
(* kanban.Model, kanban.go.                                                *)
(***************************************************************************)
\* typeOrder of sortStatesByType; a type missing from the map reads as 0.
KanbanTypeOrder(type) ==
    CASE type = "backlog" -> 0
      [] type = "unstarted" -> 1
      [] type = "started" -> 2
      [] type = "completed" -> 3
      [] type = "canceled" -> 4
      [] OTHER -> 0

KanbanStateLess(a, b) ==
    IF KanbanTypeOrder(a.type) # KanbanTypeOrder(b.type)
    THEN KanbanTypeOrder(a.type) < KanbanTypeOrder(b.type)
    ELSE a.position < b.position

RECURSIVE InsertState(_, _)
InsertState(sorted, x) ==
    IF sorted = <<>> THEN <<x>>
    ELSE IF KanbanStateLess(x, Head(sorted)) THEN <<x>> \o sorted
    ELSE <<Head(sorted)>> \o InsertState(Tail(sorted), x)

RECURSIVE sortStatesByType(_)
\* sort.Slice of a copy; the catalogs used here have no two states with the
\* same (type order, position), so the order is determined.
sortStatesByType(states) ==
    IF states = <<>> THEN <<>>
    ELSE InsertState(sortStatesByType(SubSeq(states, 1, Len(states) - 1)),
                     states[Len(states)])

\* A filter that puts every issue in every column.
filterIssuesByStateKeepingAll(issueList, stateID) == issueList

RECURSIVE filterIssuesByState(_, _)
filterIssuesByState(issueList, stateID) ==
    IF issueList = <<>> THEN <<>>
    ELSE LET issue == Head(issueList)
             rest == filterIssuesByState(Tail(issueList), stateID)
         IN  IF issue.state # NoState /\ issue.state = stateID
             THEN <<issue>> \o rest
             ELSE rest

\* kanban.New
KanbanNew(issueList, states) ==
    LET sortedStates == sortStatesByType(states)
    IN  [columns |-> [i \in DOMAIN sortedStates |->
                        [state |-> sortedStates[i],
                         issues |-> filterIssuesByState(issueList,
                                                        sortedStates[i].id),
                         cursor |-> 0]],
         activeColumn |-> 0,
         moveMode |-> FALSE]

\* Model.SelectedIssue (nil as NoIssue); columns and cursors count from 0.
KanbanSelectedIssue(kv) ==
    IF kv.activeColumn < 0 \/ kv.activeColumn >= Len(kv.columns) THEN NoIssue
    ELSE LET col == kv.columns[kv.activeColumn + 1]
         IN  IF col.cursor < 0 \/ col.cursor >= Len(col.issues) THEN NoIssue
             ELSE col.issues[col.cursor + 1]

\* Model.clampCursor
KanbanClampCursor(kv) ==
    LET col == kv.columns[kv.activeColumn + 1]
        c1 == IF col.cursor >= Len(col.issues) THEN Len(col.issues) - 1
              ELSE col.cursor
        c2 == IF c1 < 0 THEN 0 ELSE c1
    IN  [kv EXCEPT !.columns[kv.activeColumn + 1].cursor = c2]

\* What a view model's Update returns: the model, the commands, and whether
\* the call ran to its end ("ok") or panicked ("panic").
KanbanRet(kv, cmds) == [kv |-> kv, cmds |-> cmds, fate |-> "ok"]

KanbanPanic(kv) == [kv |-> kv, cmds |-> <<>>, fate |-> "panic"]

\* The command moveIssueToColumn returns: it delivers a MoveIssueMsg.
CmdMoveIssueMsg(issueID, stateID) ==
    [op |-> "moveIssueMsg", tab |-> "-", cursor |-> "", id |-> issueID,
     field |-> "-", arg |-> stateID]

moveIssueToColumnAlsoSameColumn(kv, targetCol) ==
    LET issue == KanbanSelectedIssue(kv)
    IN  IF issue = NoIssue
        THEN KanbanRet(kv, <<>>)
        ELSE KanbanRet(kv, <<CmdMoveIssueMsg(issue.id,
                                kv.columns[targetCol + 1].state.id)>>)

\* Model.moveIssueToColumn, kanban.go 146-160
moveIssueToColumn(kv, targetCol) ==
    LET issue == KanbanSelectedIssue(kv)
    IN  IF issue = NoIssue \/ targetCol = kv.activeColumn
        THEN KanbanRet(kv, <<>>)
        ELSE KanbanRet(kv, <<CmdMoveIssueMsg(issue.id,
                                kv.columns[targetCol + 1].state.id)>>)

moveIssueLeft(kv) ==
    IF kv.activeColumn > 0 THEN moveIssueToColumn(kv, kv.activeColumn - 1)
    ELSE KanbanRet(kv, <<>>)

moveIssueRight(kv) ==
    IF kv.activeColumn < Len(kv.columns) - 1
    THEN moveIssueToColumn(kv, kv.activeColumn + 1)
    ELSE KanbanRet(kv, <<>>)

\* The index a digit key names: msg.String()[0] - '1'.
DigitIndex(key) ==
    CASE key = "1" -> 0 [] key = "2" -> 1 [] key = "3" -> 2 [] key = "4" -> 3
      [] key = "5" -> 4 [] key = "6" -> 5 [] key = "7" -> 6 [] key = "8" -> 7
      [] key = "9" -> 8 [] OTHER -> -1

\* Model.updateNormalMode; indexing m.columns[m.activeColumn] with no
\* columns is a run-time panic.
KanbanUpdateNormalMode(kv, key) ==
    CASE key \in {"h", "left"} ->
            IF kv.activeColumn > 0
            THEN KanbanRet(KanbanClampCursor(
                     [kv EXCEPT !.activeColumn = kv.activeColumn - 1]), <<>>)
            ELSE KanbanRet(kv, <<>>)
      [] key \in {"l", "right"} ->
            IF kv.activeColumn < Len(kv.columns) - 1
            THEN KanbanRet(KanbanClampCursor(
                     [kv EXCEPT !.activeColumn = kv.activeColumn + 1]), <<>>)
            ELSE KanbanRet(kv, <<>>)
      [] key \in {"j", "down"} ->
            IF kv.activeColumn >= Len(kv.columns) THEN KanbanPanic(kv)
            ELSE LET col == kv.columns[kv.activeColumn + 1]
                 IN  IF col.cursor < Len(col.issues) - 1
                     THEN KanbanRet([kv EXCEPT
                              !.columns[kv.activeColumn + 1].cursor =
                                  col.cursor + 1], <<>>)
                     ELSE KanbanRet(kv, <<>>)
      [] key \in {"k", "up"} ->
            IF kv.activeColumn >= Len(kv.columns) THEN KanbanPanic(kv)
            ELSE LET col == kv.columns[kv.activeColumn + 1]
                 IN  IF col.cursor > 0
                     THEN KanbanRet([kv EXCEPT
                              !.columns[kv.activeColumn + 1].cursor =
                                  col.cursor - 1], <<>>)
                     ELSE KanbanRet(kv, <<>>)
      [] key \in {"g", "home"} ->
            IF kv.activeColumn >= Len(kv.columns) THEN KanbanPanic(kv)
            ELSE KanbanRet([kv EXCEPT
                     !.columns[kv.activeColumn + 1].cursor = 0], <<>>)
      [] key \in {"G", "end"} ->
            IF kv.activeColumn >= Len(kv.columns) THEN KanbanPanic(kv)
            ELSE LET col == kv.columns[kv.activeColumn + 1]
                 IN  IF Len(col.issues) > 0
                     THEN KanbanRet([kv EXCEPT
                              !.columns[kv.activeColumn + 1].cursor =
                                  Len(col.issues) - 1], <<>>)
                     ELSE KanbanRet(kv, <<>>)
      [] key = "m" ->
            IF KanbanSelectedIssue(kv) # NoIssue
            THEN KanbanRet([kv EXCEPT !.moveMode = TRUE], <<>>)
            ELSE KanbanRet(kv, <<>>)
      [] key = "H" -> moveIssueLeft(kv)
      [] key = "L" -> moveIssueRight(kv)
      [] OTHER -> KanbanRet(kv, <<>>)

\* Model.updateMoveMode
KanbanUpdateMoveMode(kv, key) ==
    CASE key \in {"esc", "q"} -> KanbanRet([kv EXCEPT !.moveMode = FALSE], <<>>)
      [] key \in {"h", "left"} -> moveIssueLeft([kv EXCEPT !.moveMode = FALSE])
      [] key \in {"l", "right"} -> moveIssueRight([kv EXCEPT !.moveMode = FALSE])
      [] DigitIndex(key) >= 0 ->
            IF DigitIndex(key) < Len(kv.columns)
            THEN moveIssueToColumn([kv EXCEPT !.moveMode = FALSE],
                                   DigitIndex(key))
            ELSE KanbanRet(kv, <<>>)
      [] OTHER -> KanbanRet(kv, <<>>)

\* Model.Update on a key
KanbanUpdate(kv, key) ==
    IF kv.moveMode THEN KanbanUpdateMoveMode(kv, key)
    ELSE KanbanUpdateNormalMode(kv, key)

(***************************************************************************)
(* The orchestrator, app.go.  A value of the Go struct app.Model is a      *)
(* record; Update(m, msg) returns the new model, the commands it issues    *)
(* and how the call ended: "ok", "quit" (tea.Quit) or "panic".             *)
(***************************************************************************)
NoErr == ""

Ret(m, cmds) == [m |-> m, cmds |-> cmds, fate |-> "ok"]

Quit(m) == [m |-> m, cmds |-> <<>>, fate |-> "quit"]

Panic(m) == [m |-> m, cmds |-> <<>>, fate |-> "panic"]

\* Issue.Identifier, the human-readable code of an issue.
Identifier(id) == "ENG-" \o ToString(id)

NoPageInfo == [hasNextPage |-> FALSE, endCursor |-> ""]

\* New(cfg), app.go 150-178; hasKey: cfg.Linear.APIKey # "".
New(hasKey) ==
    [view |-> IF hasKey THEN "List" ELSE "Setup",
     activeTab |-> "MyIssues",
     loading |-> hasKey,
     statusMsg |-> "",
     statusErr |-> FALSE,
     showHelp |-> FALSE,
     width |-> 0,
     height |-> 0,
     searchMode |-> FALSE,
     searchQuery |-> <<>>,
     filteredIssues |-> <<>>,
     allProjectIssues |-> <<>>,
     pageInfo |-> NoPageInfo,
     loadingMore |-> FALSE,
     listView |-> NewListModel(<<>>, 0, 0),
     detailView |-> NewDetailModel(NoIssue, 0, 0),
     createView |-> [opened |-> FALSE],
     editView |-> [issueID |-> 0],
     kanbanView |-> KanbanNew(<<>>, <<>>),
     picker |-> NoPicker,
     pickerType |-> "",
     issues |-> <<>>,
     currentIssue |-> NoIssue,
     currentProject |-> NoProject,
     filterProject |-> NoProject,
     viewer |-> "",
     teams |-> <<>>,
     projects |-> <<>>,
     users |-> <<>>,
     states |-> <<>>,
     labels |-> <<>>]

(***************************************************************************)
(* Commands: the asynchronous operations Update hands to the runtime.      *)
(***************************************************************************)
Cmd(op, tab, cursor, id, field, arg) ==
    [op |-> op, tab |-> tab, cursor |-> cursor, id |-> id, field |-> field,
     arg |-> arg]

CmdLoadInitialData == Cmd("loadInitialData", "-", "", 0, "-", "-")

\* loadIssuesWithCursor, app.go 265-326: the fetch is for the tab and the
\* project filter of the model it was called on; it appends iff the cursor
\* is not empty.
loadIssuesWithCursor(m, cursor) ==
    <<Cmd("loadIssues", m.activeTab, cursor, 0, "-", m.filterProject)>>

loadIssues(m) == loadIssuesWithCursor(m, "")

\* loadMoreIssues, app.go 258-263
loadMoreIssues(m) ==
    IF ~m.pageInfo.hasNextPage \/ m.loadingMore THEN <<>>
    ELSE loadIssuesWithCursor(m, m.pageInfo.endCursor)

loadAllProjectIssues(m) ==
    IF m.currentProject = NoProject THEN <<>>
    ELSE <<Cmd("loadAllProjectIssues", "-", "", 0, "-", m.currentProject)>>

loadWorkflowStates(m) ==
    IF Len(m.teams) = 0 THEN <<>>
    ELSE <<Cmd("loadWorkflowStates", "-", "", 0, "-", m.teams[1])>>

loadLabels(m) ==
    IF Len(m.teams) = 0 THEN <<>>
    ELSE <<Cmd("loadLabels", "-", "", 0, "-", m.teams[1])>>

loadUsers(m) == <<Cmd("loadUsers", "-", "", 0, "-", "-")>>

createIssue(m) == <<Cmd("createIssue", "-", "", 0, "-", "-")>>

updateIssue(m, issueID, field, value) ==
    <<Cmd("updateIssue", "-", "", issueID, field, value)>>

updateIssueState(m, issueID, stateID) ==
    <<Cmd("updateIssue", "-", "", issueID, "stateId", stateID)>>

deleteIssue(m, issueID) == <<Cmd("deleteIssue", "-", "", issueID, "-", "-")>>

\* copyToClipboard, openInLinear, openWorkTask: local helpers that answer
\* with a StatusMsg.
localHelper(m, what, issueID) == <<Cmd("local", "-", "", issueID, what, "-")>>

(***************************************************************************)
(* Model.filterIssues, app.go 869-892.                                     *)
(***************************************************************************)
\* Issue.Title, Issue.Identifier and Issue.Description as texts.
\* Issue 3's title quotes the identifier of issue 1.
IssueTitle(issue) ==
    CASE issue.id = 1 -> <<"A", "b">>
      [] issue.id = 3 -> <<"a", "X", "1">>
      [] OTHER -> <<"b", "a", "d">>

\* The decimal digits of n, the way the identifier spells the number.
RECURSIVE DecimalDigits(_)
DecimalDigits(n) ==
    IF n < 10 THEN <<ToString(n)>>
    ELSE Append(DecimalDigits(n \div 10), ToString(n % 10))

\* The team key and the number of the issue.
IssueIdentifierText(issue) == <<"X">> \o DecimalDigits(issue.id)

IssueDescription(issue) == IF issue.id = 1 THEN <<>> ELSE <<"w", "a">>

(***************************************************************************)
(* issues.DetailModel, detail.go: what the view renders.                   *)
(***************************************************************************)
\* One piece of rendered text: the label before it and the text, either
\* a literal of the view or the name of the issue field that is printed.
Fragment(label, text) == [label |-> label, text |-> text]

\* DetailModel.renderMetadata, detail.go 139-181: the parts, in order.  The
\* issues here have no project, team or due date.
DetailMetadataParts(issue) ==
    (IF issue.state # NoState
     THEN <<Fragment("Status", "State.Name")>> ELSE <<>>)
    \o <<Fragment("Priority", ToString(issue.priority))>>
    \o <<Fragment("Assignee", IF issue.assignee # NoUser
                              THEN "Assignee.Name" ELSE "Unassigned")>>
    \o <<Fragment("Created", "CreatedAt"), Fragment("Updated", "UpdatedAt")>>

\* DetailModel.renderMetadata, detail.go 182-197: the parts in two columns,
\* the even-indexed on the left; one line per pair.
DetailRenderMetadata(issue) ==
    LET parts == DetailMetadataParts(issue)
        rows == (Len(parts) + 1) \div 2
    IN  [r \in 1..rows |->
            IF 2 * r <= Len(parts)
            THEN <<parts[2 * r - 1], parts[2 * r]>>
            ELSE <<parts[2 * r - 1]>>]

\* DetailModel.renderDescription, detail.go 201-220; the descriptions here
\* fit one line.
DetailRenderDescription(issue) ==
    IF IssueDescription(issue) = <<>>
    THEN <<<<Fragment("", "No description")>>>>
    ELSE <<<<Fragment("", "Description")>>>>

\* DetailModel.View, detail.go 63-118: the lines of the content, each the
\* fragments on it.  The scroll offset does not enter.
DetailView(dv) ==
    IF dv.issue = NoIssue THEN <<<<Fragment("", "No issue selected")>>>>
    ELSE << <<Fragment("", "ESC"), Fragment("", "Identifier")>>,
            <<>>,
            <<Fragment("", "Title")>>,
            <<>> >>
         \o DetailRenderMetadata(dv.issue)
         \o << <<>>, <<Fragment("", "Divider")>>, <<>> >>
         \o DetailRenderDescription(dv.issue)

(***************************************************************************)
(* Model.filterIssues, app.go 869-892.                                     *)
(***************************************************************************)
\* A match that compares the fields as they are spelled.
RECURSIVE MatchingIssuesCaseSensitive(_, _)
MatchingIssuesCaseSensitive(source, query) ==
    IF source = <<>> THEN <<>>
    ELSE LET issue == Head(source)
             rest == MatchingIssuesCaseSensitive(Tail(source), query)
         IN  IF \/ Contains(IssueTitle(issue), query)
                \/ Contains(IssueIdentifierText(issue), query)
                \/ Contains(IssueDescription(issue), query)
             THEN <<issue>> \o rest
             ELSE rest

RECURSIVE MatchingIssues(_, _)
MatchingIssues(source, query) ==
    IF source = <<>> THEN <<>>
    ELSE LET issue == Head(source)
             rest == MatchingIssues(Tail(source), query)
         IN  IF \/ Contains(ToLower(IssueTitle(issue)), query)
                \/ Contains(ToLower(IssueIdentifierText(issue)), query)
                \/ Contains(ToLower(IssueDescription(issue)), query)
             THEN <<issue>> \o rest
             ELSE rest

filterIssues(m) ==
    IF m.searchQuery = <<>>
    THEN [m EXCEPT !.filteredIssues = <<>>,
                   !.listView = NewListModel(m.issues, m.width, m.height - 4)]
    ELSE LET searchSource ==
                 IF m.activeTab = "Project" /\ Len(m.allProjectIssues) > 0
                 THEN m.allProjectIssues ELSE m.issues
             filtered ==
                 sortIssues(MatchingIssues(searchSource,
                                           ToLower(m.searchQuery)))
         IN  [m EXCEPT !.filteredIssues = filtered,
                       !.listView = NewListModel(filtered, m.width,
                                                 m.height - 4)]

(***************************************************************************)
(* Model.Update on the completion messages, app.go 446-597.                *)
(***************************************************************************)
\* The patch of IssueUpdatedMsg, app.go 536-541: the first entry with the
\* record's ID is replaced.
RECURSIVE ReplaceFirst(_, _)
ReplaceFirst(issueList, issue) ==
    IF issueList = <<>> THEN <<>>
    ELSE IF Head(issueList).id = issue.id THEN <<issue>> \o Tail(issueList)
    ELSE <<Head(issueList)>> \o ReplaceFirst(Tail(issueList), issue)

\* A patch that inserts the record when the list has no entry for it.
patchIssueUpsert(issueList, issue) ==
    IF issue.id \in Ids(issueList) THEN ReplaceFirst(issueList, issue)
    ELSE Append(issueList, issue)

patchIssue(issueList, issue) == ReplaceFirst(issueList, issue)

OnDataLoaded(m, msg) ==
    IF msg.err # NoErr
    THEN Ret([m EXCEPT !.loading = FALSE,
                       !.statusMsg = "Error: " \o msg.err,
                       !.statusErr = TRUE], <<>>)
    ELSE LET m1 == [m EXCEPT !.viewer = msg.viewer,
                             !.teams = msg.teams,
                             !.projects = msg.projects,
                             !.currentProject = msg.matchedProject,
                             !.activeTab = IF msg.matchedProject # NoProject
                                           THEN "Project" ELSE m.activeTab]
         IN  Ret(m1, loadIssues(m1) \o loadWorkflowStates(m1)
                         \o loadLabels(m1) \o loadUsers(m1))

\* A handler that drops a response arriving when no load is awaited.
OnIssuesLoadedIfLoading(m, msg) ==
    IF ~m.loading /\ ~m.loadingMore THEN Ret(m, <<>>)
    ELSE LET m0 == [m EXCEPT !.loading = FALSE, !.loadingMore = FALSE]
         IN  IF msg.err # NoErr
             THEN Ret([m0 EXCEPT !.statusMsg = "Error loading issues: "
                                                  \o msg.err,
                                 !.statusErr = TRUE], <<>>)
             ELSE LET merged == IF msg.append
                                THEN applyAppendedPage(m.issues, msg.issues)
                                ELSE sortIssues(msg.issues)
                  IN  Ret([m0 EXCEPT
                             !.pageInfo = msg.pageInfo,
                             !.issues = merged,
                             !.listView = NewListModelWithPagination(
                                             merged, m.width, m.height - 4,
                                             msg.pageInfo.hasNextPage)], <<>>)

OnIssuesLoaded(m, msg) ==
    LET m0 == [m EXCEPT !.loading = FALSE, !.loadingMore = FALSE]
    IN  IF msg.err # NoErr
        THEN Ret([m0 EXCEPT !.statusMsg = "Error loading issues: " \o msg.err,
                            !.statusErr = TRUE], <<>>)
        ELSE LET merged == IF msg.append
                           THEN applyAppendedPage(m.issues, msg.issues)
                           ELSE sortIssues(msg.issues)
                 n == ToString(Len(merged))
                 status ==
                     IF msg.pageInfo.hasNextPage /\ ~msg.append
                     THEN "Loaded " \o n \o " issues (more available, press L)"
                     ELSE IF msg.append
                     THEN "Loaded " \o n \o " total issues"
                     ELSE m.statusMsg
             IN  Ret([m0 EXCEPT
                        !.pageInfo = msg.pageInfo,
                        !.issues = merged,
                        !.listView = NewListModelWithPagination(
                                        merged, m.width, m.height - 4,
                                        msg.pageInfo.hasNextPage),
                        !.statusMsg = status], <<>>)

OnWorkflowStatesLoaded(m, msg) ==
    IF msg.err # NoErr
    THEN Ret([m EXCEPT
                !.statusMsg = "Error loading workflow states: " \o msg.err,
                !.statusErr = TRUE], <<>>)
    ELSE Ret([m EXCEPT !.states = msg.states], <<>>)

OnLabelsLoaded(m, msg) ==
    IF msg.err # NoErr
    THEN Ret([m EXCEPT !.statusMsg = "Error loading labels: " \o msg.err,
                       !.statusErr = TRUE], <<>>)
    ELSE Ret([m EXCEPT !.labels = msg.labels], <<>>)

OnUsersLoaded(m, msg) ==
    IF msg.err # NoErr
    THEN Ret([m EXCEPT !.statusMsg = "Error loading users: " \o msg.err,
                       !.statusErr = TRUE], <<>>)
    ELSE Ret([m EXCEPT !.users = msg.users], <<>>)

OnAllProjectIssuesLoaded(m, msg) ==
    IF msg.err # NoErr
    THEN Ret([m EXCEPT
                !.statusMsg = "Error loading project issues: " \o msg.err,
                !.statusErr = TRUE], <<>>)
    ELSE Ret(filterIssues([m EXCEPT
                !.allProjectIssues = sortIssues(msg.issues)]), <<>>)

\* A success branch that keeps the record it holds unless the response's
\* record was updated later.
applyIssueUpdatedIfNewer(m, msg) ==
    LET m1 == [m EXCEPT !.statusMsg = "Issue updated", !.statusErr = FALSE]
        held == {m.issues[i] : i \in {j \in DOMAIN m.issues :
                                         m.issues[j].id = msg.issue.id}}
        newer == \A h \in held : h.updatedAt < msg.issue.updatedAt
        m2 == IF msg.issue = NoIssue \/ ~newer THEN m1
              ELSE LET patched == sortIssues(patchIssue(m.issues, msg.issue))
                       m3 == [m1 EXCEPT
                                !.issues = patched,
                                !.listView = NewListModel(
                                    patched, m.width, m.height - 4)]
                   IN  IF /\ m.currentIssue # NoIssue
                          /\ m.currentIssue.id = msg.issue.id
                       THEN [m3 EXCEPT
                               !.currentIssue = msg.issue,
                               !.detailView = NewDetailModel(
                                   msg.issue, m.width, m.height - 4)]
                       ELSE m3
    IN  Ret([m2 EXCEPT !.view = IF m.view = "Edit" THEN "Detail"
                                ELSE m.view], <<>>)

\* The success branch of case IssueUpdatedMsg, app.go 532-552
applyIssueUpdated(m, msg) ==
    LET m1 == [m EXCEPT !.statusMsg = "Issue updated", !.statusErr = FALSE]
        m2 == IF msg.issue = NoIssue THEN m1
              ELSE LET patched == sortIssues(patchIssue(m.issues, msg.issue))
                       m3 == [m1 EXCEPT
                                !.issues = patched,
                                !.listView = NewListModel(
                                    patched, m.width, m.height - 4)]
                   IN  IF /\ m.currentIssue # NoIssue
                          /\ m.currentIssue.id = msg.issue.id
                       THEN [m3 EXCEPT
                               !.currentIssue = msg.issue,
                               !.detailView = NewDetailModel(
                                   msg.issue, m.width, m.height - 4)]
                       ELSE m3
    IN  Ret([m2 EXCEPT !.view = IF m.view = "Edit" THEN "Detail"
                                ELSE m.view], <<>>)

\* A handler that answers a failed update by reloading the list.
OnIssueUpdatedReloading(m, msg) ==
    IF msg.err # NoErr
    THEN Ret([m EXCEPT !.statusMsg = "Error: " \o msg.err,
                       !.statusErr = TRUE,
                       !.loading = TRUE], loadIssues(m))
    ELSE applyIssueUpdated(m, msg)

\* case IssueUpdatedMsg, app.go 527-554
OnIssueUpdated(m, msg) ==
    IF msg.err # NoErr
    THEN Ret([m EXCEPT !.statusMsg = "Error: " \o msg.err,
                       !.statusErr = TRUE], <<>>)
    ELSE applyIssueUpdated(m, msg)

\* msg.Issue.Identifier with a nil msg.Issue is a nil dereference.
OnIssueCreated(m, msg) ==
    IF msg.err # NoErr
    THEN Ret([m EXCEPT !.statusMsg = "Error creating issue: " \o msg.err,
                       !.statusErr = TRUE], <<>>)
    ELSE IF msg.issue = NoIssue THEN Panic(m)
    ELSE LET m1 == [m EXCEPT
                      !.statusMsg = "Issue created: "
                                        \o Identifier(msg.issue.id),
                      !.statusErr = FALSE,
                      !.view = "List"]
         IN  Ret(m1, loadIssues(m1))

\* The IssueDeletedMsg handler clearing the current issue and staying in
\* the view it is in.
OnIssueDeletedKeepingView(m, msg) ==
    IF msg.err # NoErr
    THEN Ret([m EXCEPT !.statusMsg = "Error deleting issue: " \o msg.err,
                       !.statusErr = TRUE], <<>>)
    ELSE LET m1 == [m EXCEPT
                      !.statusMsg = "Issue deleted: "
                                        \o Identifier(msg.issueID),
                      !.statusErr = FALSE,
                      !.currentIssue = NoIssue]
         IN  Ret(m1, loadIssues(m1))

OnIssueDeleted(m, msg) ==
    IF msg.err # NoErr
    THEN Ret([m EXCEPT !.statusMsg = "Error deleting issue: " \o msg.err,
                       !.statusErr = TRUE], <<>>)
    ELSE LET m1 == [m EXCEPT
                      !.statusMsg = "Issue deleted: "
                                        \o Identifier(msg.issueID),
                      !.statusErr = FALSE,
                      !.view = "List",
                      !.currentIssue = NoIssue]
         IN  Ret(m1, loadIssues(m1))

OnStatus(m, msg) ==
    Ret([m EXCEPT !.statusMsg = msg.message, !.statusErr = msg.isError], <<>>)

\* case kanban.MoveIssueMsg, app.go 596-597
OnMoveIssue(m, msg) == Ret(m, updateIssueState(m, msg.issueID, msg.stateID))

(***************************************************************************)
(* Model.Update on a key, app.go 388-416 and 604-1057.                     *)
(***************************************************************************)
\* tabNames / tabAtIndex / indexOfTab, app.go 104-147
Tabs(m) ==
    IF m.currentProject # NoProject
    THEN <<"Project", "MyIssues", "AllIssues", "Active", "Backlog">>
    ELSE <<"MyIssues", "AllIssues", "Active", "Backlog">>

tabCount(m) == Len(Tabs(m))

tabAtIndex(m, index) ==
    IF index >= 0 /\ index < Len(Tabs(m)) THEN Tabs(m)[index + 1]
    ELSE Tabs(m)[1]

indexOfTab(m, tab) ==
    IF \E i \in DOMAIN Tabs(m) : Tabs(m)[i] = tab
    THEN (CHOOSE i \in DOMAIN Tabs(m) : Tabs(m)[i] = tab) - 1
    ELSE 0

\* The tab a digit key selects in the List view (app.go 663-712), "" if none.
DigitTab(m, key) ==
    LET hasProject == m.currentProject # NoProject
    IN  CASE key = "1" -> IF hasProject THEN "Project" ELSE "MyIssues"
          [] key = "2" -> IF hasProject THEN "MyIssues" ELSE "AllIssues"
          [] key = "3" -> IF hasProject THEN "AllIssues" ELSE "Active"
          [] key = "4" -> IF hasProject THEN "Active" ELSE "Backlog"
          [] key = "5" -> IF hasProject THEN "Backlog" ELSE ""
          [] OTHER -> ""

\* A tab switch that empties the list until the response arrives.
switchTabClearingList(m, tab) ==
    LET m1 == [m EXCEPT !.activeTab = tab, !.loading = TRUE,
                        !.issues = <<>>,
                        !.listView = NewListModel(<<>>, m.width, m.height - 4)]
    IN  Ret(m1, loadIssues(m1))

switchTab(m, tab) ==
    LET m1 == [m EXCEPT !.activeTab = tab, !.loading = TRUE]
    IN  Ret(m1, loadIssues(m1))

\* statesToItems, usersToItems, priorityItems, projectsToItems
statesToItems(m) ==
    [i \in DOMAIN m.states |-> PickerItem(m.states[i].id, m.states[i].name)]

usersToItems(m) ==
    <<PickerItem("", <<"U", "n">>)>>
        \o [i \in DOMAIN m.users |->
               PickerItem(m.users[i].id, m.users[i].name)]

priorityItems ==
    << PickerItem("0", <<"N", "o">>), PickerItem("1", <<"U", "r">>),
       PickerItem("2", <<"H", "i">>), PickerItem("3", <<"M", "e">>),
       PickerItem("4", <<"L", "o">>) >>

projectsToItems(m) ==
    <<PickerItem("", <<"A", "l", "l">>)>>
        \o [i \in DOMAIN m.projects |->
               PickerItem(m.projects[i].id, m.projects[i].name)]

(***************************************************************************)
(* issues.EditModel, edit.go: the edit form, and the request payload that  *)
(* its values are encoded to.                                              *)
(***************************************************************************)
\* The nil pointer of an optional field.
Nil == "<nil>"

\* The JSON value null.
JsonNull == "<null>"

\* The issue a form is opened on; project and assignee may be nil.
EditIssue(state, priority, assignee, project) ==
    [id |-> 2, state |-> state, priority |-> priority, assignee |-> assignee,
     project |-> project]

\* The index NewEditModel looks up (edit.go 87-115): the first entry with
\* the ID, else the default.
EditIndexOf(entries, id, default) ==
    IF \E i \in DOMAIN entries : entries[i].id = id
    THEN (CHOOSE i \in DOMAIN entries :
             /\ entries[i].id = id
             /\ \A j \in 1..(i - 1) : entries[j].id # id) - 1
    ELSE default

\* NewEditModel, edit.go 58-135; field indices: 0 title, 1 description,
\* 2 state, 3 priority, 4 assignee, 5 project.
NewEditModel(issue, projects, states, users) ==
    [issueID |-> issue.id,
     title |-> IssueTitle(issue),
     description |-> IssueDescription(issue),
     projects |-> projects,
     states |-> states,
     users |-> users,
     selectedProject |-> IF issue.project = NoProject THEN -1
                         ELSE EditIndexOf(projects, issue.project, -1),
     selectedState |-> IF issue.state = NoState THEN 0
                       ELSE EditIndexOf(states, issue.state, 0),
     selectedPriority |-> issue.priority,
     selectedAssignee |-> IF issue.assignee = NoUser THEN -1
                          ELSE EditIndexOf(users, issue.assignee, -1),
     focusIndex |-> 0,
     picker |-> NoPicker,
     pickerType |-> ""]

\* clamp, create.go 523-531
clamp(value, min, max) ==
    IF value < min THEN min ELSE IF value > max THEN max ELSE value

\* EditModel.handleLeftRight, edit.go 364-375
EditHandleLeftRight(f, dir) ==
    CASE f.focusIndex = 2 ->
            [f EXCEPT !.selectedState =
                clamp(f.selectedState + dir, 0, Len(f.states) - 1)]
      [] f.focusIndex = 3 ->
            [f EXCEPT !.selectedPriority =
                clamp(f.selectedPriority + dir, 0, 4)]
      [] f.focusIndex = 4 ->
            [f EXCEPT !.selectedAssignee =
                clamp(f.selectedAssignee + dir, -1, Len(f.users) - 1)]
      [] f.focusIndex = 5 ->
            [f EXCEPT !.selectedProject =
                clamp(f.selectedProject + dir, -1, Len(f.projects) - 1)]
      [] OTHER -> f

\* EditModel.projectsToItems, edit.go 300-319
EditProjectsToItems(f) ==
    <<PickerItem("", <<"N", "o", "n", "e">>)>>
        \o [i \in DOMAIN f.projects |->
               PickerItem(f.projects[i].id, f.projects[i].name)]

\* EditModel.openPickerForField, edit.go 193-208
EditOpenPickerForField(f) ==
    CASE f.focusIndex = 2 ->
            [f EXCEPT !.picker = NewPickerModel("Select Status",
                                                statesToItems(f)),
                      !.pickerType = "state"]
      [] f.focusIndex = 3 ->
            [f EXCEPT !.picker = NewPickerModel("Select Priority",
                                                priorityItems),
                      !.pickerType = "priority"]
      [] f.focusIndex = 4 ->
            [f EXCEPT !.picker = NewPickerModel("Select Assignee",
                                                usersToItems(f)),
                      !.pickerType = "assignee"]
      [] f.focusIndex = 5 ->
            [f EXCEPT !.picker = NewPickerModel("Select Project",
                                                EditProjectsToItems(f)),
                      !.pickerType = "project"]
      [] OTHER -> f

\* EditModel.handlePickerSelection, edit.go 237-284
EditHandlePickerSelection(f, item) ==
    CASE f.pickerType = "state" ->
            [f EXCEPT !.selectedState =
                EditIndexOf(f.states, item.id, f.selectedState)]
      [] f.pickerType = "project" ->
            [f EXCEPT !.selectedProject =
                IF item.id = "" THEN -1
                ELSE EditIndexOf(f.projects, item.id, f.selectedProject)]
      [] f.pickerType = "priority" ->
            [f EXCEPT !.selectedPriority =
                CASE item.id = "1" -> 1 [] item.id = "2" -> 2
                  [] item.id = "3" -> 3 [] item.id = "4" -> 4 [] OTHER -> 0]
      [] f.pickerType = "assignee" ->
            [f EXCEPT !.selectedAssignee =
                IF item.id = "" THEN -1
                ELSE EditIndexOf(f.users, item.id, f.selectedAssignee)]
      [] OTHER -> f

\* EditModel.updatePicker, edit.go 211-234
EditUpdatePicker(f, key) ==
    CASE key = "esc" -> [f EXCEPT !.picker = NoPicker, !.pickerType = ""]
      [] key = "enter" ->
            LET f1 == IF PickerSelectedItem(f.picker) # NoItem
                      THEN EditHandlePickerSelection(
                               f, PickerSelectedItem(f.picker))
                      ELSE f
            IN  [f1 EXCEPT !.picker = NoPicker, !.pickerType = ""]
      [] OTHER -> [f EXCEPT !.picker = PickerUpdate(f.picker, key)]

\* EditModel.Update on a key, edit.go 150-190; a key typed into the title
\* or the description changes the text only.
EditUpdate(f, key) ==
    IF f.picker # NoPicker THEN EditUpdatePicker(f, key)
    ELSE CASE key \in {"tab", "down"} ->
                [f EXCEPT !.focusIndex = (f.focusIndex + 1) % 6]
           [] key \in {"shift+tab", "up"} ->
                [f EXCEPT !.focusIndex = (f.focusIndex - 1 + 6) % 6]
           [] key = "left" -> EditHandleLeftRight(f, -1)
           [] key = "right" -> EditHandleLeftRight(f, 1)
           [] key = "enter" -> EditOpenPickerForField(f)
           [] OTHER -> f

\* EditModel.GetUpdateInput, edit.go 386-421: the IssueUpdateInput, a nil
\* pointer as Nil.
GetUpdateInput(f) ==
    [title |-> f.title,
     description |-> f.description,
     priority |-> f.selectedPriority,
     stateId |-> IF f.selectedState >= 0 /\ f.selectedState < Len(f.states)
                 THEN f.states[f.selectedState + 1].id ELSE Nil,
     projectId |-> IF f.selectedProject = -1 THEN Nil
                   ELSE IF /\ f.selectedProject >= 0
                           /\ f.selectedProject < Len(f.projects)
                   THEN f.projects[f.selectedProject + 1].id
                   ELSE Nil,
     assigneeId |-> IF f.selectedAssignee = -1 THEN Nil
                    ELSE IF /\ f.selectedAssignee >= 0
                            /\ f.selectedAssignee < Len(f.users)
                    THEN f.users[f.selectedAssignee + 1].id
                    ELSE Nil]

\* json.Marshal of the IssueUpdateInput (part_008 130-142): every field is
\* tagged omitempty, so a nil pointer leaves its field out of the object;
\* title, description and priority always point to a value.
EncodeUpdateInput(input) ==
    [field \in {"title", "description", "priority"}
               \cup {p \in {"stateId", "projectId", "assigneeId"} :
                        input[p] # Nil} |-> input[field]]

\* handleGlobalKeys, app.go 604-616: [m, fate, handled]
handleGlobalKeys(m, key) ==
    CASE key = "ctrl+c" -> [m |-> m, fate |-> "quit", handled |-> TRUE]
      [] key = "?" ->
            [m |-> [m EXCEPT !.showHelp = ~m.showHelp], fate |-> "ok",
             handled |-> TRUE]
      [] key = "esc" /\ m.showHelp ->
            [m |-> [m EXCEPT !.showHelp = FALSE], fate |-> "ok",
             handled |-> TRUE]
      [] OTHER -> [m |-> m, fate |-> "ok", handled |-> FALSE]

\* ti.CharLimit of the search input
SearchCharLimit == 100

\* A search mode whose esc clears the query and leaves the list as it is.
updateSearchModeKeepingList(m, key) ==
    CASE key = "esc" ->
            Ret([m EXCEPT !.searchMode = FALSE,
                          !.searchQuery = <<>>,
                          !.filteredIssues = <<>>,
                          !.allProjectIssues = <<>>], <<>>)
      [] key = "enter" ->
            Ret([m EXCEPT !.searchMode = FALSE,
                          !.allProjectIssues = <<>>], <<>>)
      [] OTHER ->
            Ret(filterIssues([m EXCEPT
                    !.searchQuery = TextInputUpdate(m.searchQuery, key,
                                                    SearchCharLimit)]), <<>>)

\* updateSearchMode, app.go 842-866
updateSearchMode(m, key) ==
    CASE key = "esc" ->
            Ret([m EXCEPT !.searchMode = FALSE,
                          !.searchQuery = <<>>,
                          !.filteredIssues = <<>>,
                          !.allProjectIssues = <<>>,
                          !.listView = NewListModel(m.issues, m.width,
                                                    m.height - 4)], <<>>)
      [] key = "enter" ->
            Ret([m EXCEPT !.searchMode = FALSE,
                          !.allProjectIssues = <<>>], <<>>)
      [] OTHER ->
            Ret(filterIssues([m EXCEPT
                    !.searchQuery = TextInputUpdate(m.searchQuery, key,
                                                    SearchCharLimit)]), <<>>)

\* The L branch of updateListView, app.go 761-765: loadMoreIssues is called
\* on the model whose loadingMore flag was just set.
listLoadMore(m) ==
    LET m1 == [m EXCEPT !.loadingMore = TRUE,
                        !.statusMsg = "Loading more issues..."]
    IN  Ret(m1, loadMoreIssues(m1))

\* updateListView, app.go 619-772
updateListView(m, key) ==
    LET selected == ListSelectedIssue(m.listView)
        forward == Ret([m EXCEPT !.listView = ListUpdate(m.listView, key)],
                       <<>>)
    IN  IF m.searchMode THEN updateSearchMode(m, key)
        ELSE CASE key = "/" ->
                    Ret([m EXCEPT !.searchMode = TRUE],
                        IF m.activeTab = "Project"
                               /\ m.currentProject # NoProject
                        THEN loadAllProjectIssues(m) ELSE <<>>)
               [] key = "q" -> Quit(m)
               [] key = "enter" ->
                    IF selected # NoIssue
                    THEN Ret([m EXCEPT
                                !.currentIssue = selected,
                                !.detailView = NewDetailModel(
                                    selected, m.width, m.height - 4),
                                !.view = "Detail"], <<>>)
                    ELSE Ret(m, <<>>)
               [] key = "c" ->
                    Ret([m EXCEPT !.createView = [opened |-> TRUE],
                                  !.view = "Create"], <<>>)
               [] key = "tab" ->
                    switchTab(m, tabAtIndex(m,
                        (indexOfTab(m, m.activeTab) + 1) % tabCount(m)))
               [] key = "shift+tab" ->
                    switchTab(m, tabAtIndex(m,
                        (indexOfTab(m, m.activeTab) - 1 + tabCount(m))
                            % tabCount(m)))
               [] DigitTab(m, key) # "" ->
                    IF m.activeTab # DigitTab(m, key)
                    THEN switchTab(m, DigitTab(m, key))
                    ELSE forward
               [] key = "r" ->
                    Ret([m EXCEPT !.loading = TRUE], loadIssues(m))
               [] key = "s" ->
                    IF selected # NoIssue
                    THEN Ret([m EXCEPT
                                !.picker = NewPickerModel("Change Status",
                                                          statesToItems(m)),
                                !.pickerType = "status",
                                !.currentIssue = selected], <<>>)
                    ELSE Ret(m, <<>>)
               [] key = "P" ->
                    Ret([m EXCEPT
                           !.picker = NewPickerModel("Filter by Project",
                                                     projectsToItems(m)),
                           !.pickerType = "project"], <<>>)
               [] key \in {"y", "o", "w"} ->
                    IF selected # NoIssue
                    THEN Ret(m, localHelper(m, key, selected.id))
                    ELSE forward
               [] key = "b" ->
                    Ret([m EXCEPT
                           !.kanbanView = KanbanNew(m.issues, m.states),
                           !.view = "Kanban"], <<>>)
               [] key = "d" ->
                    IF selected # NoIssue
                    THEN Ret(m, deleteIssue(m, selected.id))
                    ELSE forward
               [] key = "L" ->
                    IF m.pageInfo.hasNextPage /\ ~m.loadingMore
                    THEN listLoadMore(m)
                    ELSE forward
               [] OTHER -> forward

\* updateDetailView, app.go 775-840
updateDetailView(m, key) ==
    LET forward == Ret([m EXCEPT
                          !.detailView = DetailUpdate(m.detailView, key)],
                       <<>>)
        hasIssue == m.currentIssue # NoIssue
    IN  CASE key \in {"esc", "q"} ->
                Ret([m EXCEPT !.view = "List", !.currentIssue = NoIssue], <<>>)
          [] key = "s" ->
                IF hasIssue
                THEN Ret([m EXCEPT
                            !.picker = NewPickerModel("Change Status",
                                                      statesToItems(m)),
                            !.pickerType = "status"], <<>>)
                ELSE Ret(m, <<>>)
          [] key = "a" ->
                IF hasIssue
                THEN Ret([m EXCEPT
                            !.picker = NewPickerModel("Change Assignee",
                                                      usersToItems(m)),
                            !.pickerType = "assignee"], <<>>)
                ELSE Ret(m, <<>>)
          [] key = "p" ->
                IF hasIssue
                THEN Ret([m EXCEPT
                            !.picker = NewPickerModel("Change Priority",
                                                      priorityItems),
                            !.pickerType = "priority"], <<>>)
                ELSE Ret(m, <<>>)
          [] key \in {"y", "o", "w"} ->
                IF hasIssue THEN Ret(m, localHelper(m, key, m.currentIssue.id))
                ELSE forward
          [] key = "d" ->
                IF hasIssue THEN Ret(m, deleteIssue(m, m.currentIssue.id))
                ELSE forward
          [] key = "e" ->
                IF hasIssue
                THEN Ret([m EXCEPT
                            !.editView = [issueID |-> m.currentIssue.id],
                            !.view = "Edit"], <<>>)
                ELSE Ret(m, <<>>)
          [] OTHER -> forward

\* updateCreateView, app.go 895-911; the form's own fields are not part of
\* the orchestrator's state here.
updateCreateView(m, key) ==
    CASE key = "esc" -> Ret([m EXCEPT !.view = "List"], <<>>)
      [] key = "ctrl+s" -> Ret(m, createIssue(m))
      [] OTHER -> Ret(m, <<>>)

\* updateEditView, app.go 913-928
updateEditView(m, key) ==
    CASE key = "esc" -> Ret([m EXCEPT !.view = "Detail"], <<>>)
      [] key = "ctrl+s" ->
            Ret(m, updateIssue(m, m.editView.issueID, "form", "-"))
      [] OTHER -> Ret(m, <<>>)

\* updateKanbanView, app.go 930-978
updateKanbanView(m, key) ==
    LET selected == KanbanSelectedIssue(m.kanbanView)
        r == KanbanUpdate(m.kanbanView, key)
        forward == [m |-> [m EXCEPT !.kanbanView = r.kv], cmds |-> r.cmds,
                    fate |-> r.fate]
    IN  CASE key \in {"esc", "q"} -> Ret([m EXCEPT !.view = "List"], <<>>)
          [] key = "enter" ->
                IF selected # NoIssue
                THEN Ret([m EXCEPT
                            !.currentIssue = selected,
                            !.detailView = NewDetailModel(
                                selected, m.width, m.height - 4),
                            !.view = "Detail"], <<>>)
                ELSE Ret(m, <<>>)
          [] key = "c" ->
                Ret([m EXCEPT !.createView = [opened |-> TRUE],
                              !.view = "Create"], <<>>)
          [] key = "r" ->
                LET m1 == [m EXCEPT !.loading = TRUE, !.view = "List"]
                IN  Ret(m1, loadIssues(m1))
          [] key \in {"y", "o", "w"} ->
                IF selected # NoIssue
                THEN Ret(m, localHelper(m, key, selected.id))
                ELSE forward
          [] key = "d" ->
                IF selected # NoIssue
                THEN Ret(m, deleteIssue(m, selected.id))
                ELSE forward
          [] OTHER -> forward

\* The Setup view offers no data operation.
updateSetupView(m, key) == Ret(m, <<>>)

closePicker(m) == [m EXCEPT !.picker = NoPicker, !.pickerType = ""]

\* handlePickerSelection, app.go 1007-1057.  The function's results are not
\* named, so "return m, cmd" copies m into the result before the deferred
\* function clears m.picker and m.pickerType on the local m: the model
\* returned by the status, assignee and priority branches still holds the
\* picker.
handlePickerSelection(m, item) ==
    LET hasIssue == m.currentIssue # NoIssue
    IN  CASE m.pickerType = "status" /\ hasIssue ->
                Ret(m, updateIssueState(m, m.currentIssue.id, item.id))
          [] m.pickerType = "assignee" /\ hasIssue ->
                Ret(m, updateIssue(m, m.currentIssue.id, "assigneeId",
                                   item.id))
          [] m.pickerType = "priority" /\ hasIssue ->
                Ret(m, updateIssue(m, m.currentIssue.id, "priority", item.id))
          [] m.pickerType = "project" ->
                LET found == \E i \in DOMAIN m.projects :
                                 m.projects[i].id = item.id
                    m1 == IF item.id = ""
                          THEN [m EXCEPT !.filterProject = NoProject,
                                         !.statusMsg = "Showing all projects"]
                          ELSE IF found
                          THEN [m EXCEPT !.filterProject = item.id,
                                         !.statusMsg = "Filtering by: "
                                                           \o item.id]
                          ELSE m
                    m2 == closePicker([m1 EXCEPT !.statusErr = FALSE,
                                                 !.loading = TRUE])
                IN  Ret(m2, loadIssues(m2))
          [] OTHER -> Ret(closePicker(m), <<>>)

\* updatePicker, app.go 981-1004
updatePicker(m, key) ==
    CASE key = "esc" -> Ret(closePicker(m), <<>>)
      [] key = "enter" ->
            IF PickerSelectedItem(m.picker) # NoItem
            THEN handlePickerSelection(m, PickerSelectedItem(m.picker))
            ELSE Ret(closePicker(m), <<>>)
      [] OTHER -> Ret([m EXCEPT !.picker = PickerUpdate(m.picker, key)], <<>>)

\* Update, case tea.KeyMsg, app.go 388-416
OnKey(m, key) ==
    LET g == handleGlobalKeys(m, key)
    IN  IF g.handled THEN [m |-> g.m, cmds |-> <<>>, fate |-> g.fate]
        ELSE IF m.picker # NoPicker THEN updatePicker(m, key)
        ELSE CASE m.view = "List" -> updateListView(m, key)
               [] m.view = "Detail" -> updateDetailView(m, key)
               [] m.view = "Create" -> updateCreateView(m, key)
               [] m.view = "Edit" -> updateEditView(m, key)
               [] m.view = "Kanban" -> updateKanbanView(m, key)
               [] m.view = "Setup" -> updateSetupView(m, key)
               [] OTHER -> Ret(m, <<>>)

\* lipgloss.Width of a rendered tab: the tab's name (app.go 104-109) and
\* Padding(0, 2) of TabStyle and ActiveTabStyle (styles.go 30-38).
TabNameLen(tab) ==
    CASE tab = "Project" -> 7
      [] tab = "MyIssues" -> 9
      [] tab = "AllIssues" -> 10
      [] tab = "Active" -> 6
      [] tab = "Backlog" -> 7
      [] OTHER -> 0

TabWidth(tab) == TabNameLen(tab) + 4

\* The loop of getClickedTab: tabs[i] starts at column currentX.
RECURSIVE ClickedTabFrom(_, _, _, _)
ClickedTabFrom(tabs, i, currentX, x) ==
    IF i > Len(tabs) THEN -1
    ELSE IF x >= currentX /\ x < currentX + TabWidth(tabs[i]) THEN i - 1
    ELSE ClickedTabFrom(tabs, i + 1, currentX + TabWidth(tabs[i]), x)

\* getClickedTab, app.go 1520-1542: the index of the tab at (x, y), -1 if none.
getClickedTab(m, x, y) ==
    IF y # 1 THEN -1 ELSE ClickedTabFrom(Tabs(m), 1, 1, x)

\* Update, case tea.MouseMsg, app.go 418-429: no condition on the view.
OnMouse(m, msg) ==
    LET clickedTab == getClickedTab(m, msg.x, msg.y)
    IN  IF /\ msg.button = "left" /\ msg.action = "press"
           /\ clickedTab >= 0
           /\ tabAtIndex(m, clickedTab) # m.activeTab
        THEN switchTab(m, tabAtIndex(m, clickedTab))
        ELSE Ret(m, <<>>)

\* ListModel.SetSize, list.go 42-50
ListSetSize(lv, width, height) ==
    [lv EXCEPT !.width = width, !.height = height,
               !.pageSize = ListPageSize(height)]

\* DetailModel.SetSize, detail.go 34-38
DetailSetSize(dv, width, height) ==
    [dv EXCEPT !.width = width, !.height = height]

\* Update, case tea.WindowSizeMsg, app.go 431-439; the forms and the board
\* keep their sizes for rendering only.
OnWindowSize(m, msg) ==
    Ret([m EXCEPT !.width = msg.width,
                  !.height = msg.height,
                  !.listView = ListSetSize(m.listView, msg.width,
                                           msg.height - 4),
                  !.detailView = DetailSetSize(m.detailView, msg.width,
                                               msg.height - 4)], <<>>)

\* Model.Update, app.go 384-601
Update(m, msg) ==
    CASE msg.type = "KeyMsg" -> OnKey(m, msg.key)
      [] msg.type = "MouseMsg" -> OnMouse(m, msg)
      [] msg.type = "WindowSizeMsg" -> OnWindowSize(m, msg)
      [] msg.type = "DataLoadedMsg" -> OnDataLoaded(m, msg)
      [] msg.type = "IssuesLoadedMsg" -> OnIssuesLoaded(m, msg)
      [] msg.type = "WorkflowStatesLoadedMsg" -> OnWorkflowStatesLoaded(m, msg)
      [] msg.type = "LabelsLoadedMsg" -> OnLabelsLoaded(m, msg)
      [] msg.type = "UsersLoadedMsg" -> OnUsersLoaded(m, msg)
      [] msg.type = "AllProjectIssuesLoadedMsg" ->
            OnAllProjectIssuesLoaded(m, msg)
      [] msg.type = "IssueUpdatedMsg" -> OnIssueUpdated(m, msg)
      [] msg.type = "IssueCreatedMsg" -> OnIssueCreated(m, msg)
      [] msg.type = "IssueDeletedMsg" -> OnIssueDeleted(m, msg)
      [] msg.type = "StatusMsg" -> OnStatus(m, msg)
      [] msg.type = "MoveIssueMsg" -> OnMoveIssue(m, msg)
      [] OTHER -> Ret(m, <<>>)

\* Model.View, app.go 1199-1255: the screen the frame shows.  Nothing is
\* drawn before the first window size; the Setup screen is drawn before
\* the help flag is looked at, and an open picker covers the view.
View(m) ==
    IF m.width = 0 \/ m.height = 0 THEN ""
    ELSE IF m.view = "Setup" THEN "Setup"
    ELSE IF m.showHelp THEN "Help"
    ELSE IF m.picker # NoPicker THEN "Picker"
    ELSE IF m.loading THEN "Loading"
    ELSE m.view

(***************************************************************************)
(* The running program: the Bubble Tea runtime dispatches one message at   *)
(* a time to Update and runs the commands it returns; each command ends    *)
(* by delivering its message.                                              *)
(***************************************************************************)
appVars == <<app, inflight, lastCmds, lastMsg, fate, pressed>>

vars ==
    <<fnPc, fnIn, fnPage, fnOut, app, inflight, lastCmds, lastMsg, fate, pressed>>

MaxInflight == 2
MaxKeys == 3
MaxQueryLen == 1

\* What the remote service may answer.
\* A page with a further page behind it, and the last page.
MorePage == [hasNextPage |-> TRUE, endCursor |-> "c1"]

PageInfos == { NoPageInfo, MorePage }

RemoteErrors == {"boom"}

NoMsg == [type |-> "none"]

KeyMsg(key) == [type |-> "KeyMsg", key |-> key]

\* fmt.Sscanf(item.ID, "%d", &priority)
ParsePriority(text) ==
    CASE text = "1" -> 1 [] text = "2" -> 2 [] text = "3" -> 3
      [] text = "4" -> 4 [] OTHER -> 0

\* The records the service may answer an update with: the record of the
\* requested issue with the requested change applied and a later update
\* time.
UpdatedRecords(c) ==
    { r \in { Issue(c.id, st, p, 2, u) :
                 st \in {"s_started", "s_completed"},
                 p \in 0..4, u \in {NoUser, "u1"} } :
        /\ c.field = "stateId" => r.state = c.arg
        /\ c.field = "priority" => r.priority = ParsePriority(c.arg)
        /\ c.field = "assigneeId" =>
               r.assignee = (IF c.arg = "" THEN NoUser ELSE c.arg)
        /\ c.field # "priority" => r.priority = 1
        /\ c.field # "assigneeId" => r.assignee = NoUser }

CreatedIssue == Issue(2, "s_started", 1, 1, NoUser)

\* The messages command c can end with; a fetch of issues answers with a
\* page of pages and a page info of pageInfos.
Responses(c, pages, pageInfos) ==
    CASE c.op = "loadInitialData" ->
            { [type |-> "DataLoadedMsg", err |-> e] : e \in RemoteErrors }
            \cup { [type |-> "DataLoadedMsg", err |-> NoErr, viewer |-> "me",
                    teams |-> <<"t1">>, projects |-> TeamProjects,
                    matchedProject |-> mp] : mp \in {NoProject, "p1"} }
      [] c.op = "loadIssues" ->
            { [type |-> "IssuesLoadedMsg", err |-> e] : e \in RemoteErrors }
            \cup { [type |-> "IssuesLoadedMsg", err |-> NoErr, issues |-> p,
                    pageInfo |-> pi, append |-> (c.cursor # "")] :
                       p \in pages, pi \in pageInfos }
      [] c.op = "loadAllProjectIssues" ->
            { [type |-> "AllProjectIssuesLoadedMsg", err |-> e] :
                 e \in RemoteErrors }
            \cup { [type |-> "AllProjectIssuesLoadedMsg", err |-> NoErr,
                    issues |-> p] : p \in pages }
      [] c.op = "loadWorkflowStates" ->
            { [type |-> "WorkflowStatesLoadedMsg", err |-> e] :
                 e \in RemoteErrors }
            \cup { [type |-> "WorkflowStatesLoadedMsg", err |-> NoErr,
                    states |-> TeamStates] }
      [] c.op = "loadLabels" ->
            { [type |-> "LabelsLoadedMsg", err |-> e] : e \in RemoteErrors }
            \cup { [type |-> "LabelsLoadedMsg", err |-> NoErr,
                    labels |-> <<"bug">>] }
      [] c.op = "loadUsers" ->
            { [type |-> "UsersLoadedMsg", err |-> e] : e \in RemoteErrors }
            \cup { [type |-> "UsersLoadedMsg", err |-> NoErr,
                    users |-> TeamUsers] }
      [] c.op = "createIssue" ->
            { [type |-> "IssueCreatedMsg", err |-> e, issue |-> NoIssue] :
                 e \in RemoteErrors }
            \cup { [type |-> "IssueCreatedMsg", err |-> NoErr, issue |-> r] :
                      r \in {NoIssue, CreatedIssue} }
      [] c.op = "updateIssue" ->
            { [type |-> "IssueUpdatedMsg", err |-> e, issue |-> NoIssue] :
                 e \in RemoteErrors }
            \cup { [type |-> "IssueUpdatedMsg", err |-> NoErr, issue |-> r] :
                      r \in {NoIssue} \cup UpdatedRecords(c) }
      [] c.op = "deleteIssue" ->
            { [type |-> "IssueDeletedMsg", err |-> e, issueID |-> c.id] :
                 e \in RemoteErrors \cup {NoErr} }
      [] c.op = "local" ->
            { [type |-> "StatusMsg", message |-> "done", isError |-> FALSE],
              [type |-> "StatusMsg", message |-> "failed", isError |-> TRUE] }
      [] c.op = "moveIssueMsg" ->
            { [type |-> "MoveIssueMsg", issueID |-> c.id, stateID |-> c.arg] }
      [] OTHER -> {}

\* One call of Update by the runtime; done is the command that delivered
\* the message (none for a key).
Dispatch(msg, done) ==
    /\ fate = "ok"
    /\ \E r \in {Update(app, msg)} :
          /\ app' = r.m
          /\ lastCmds' = r.cmds
          /\ fate' = r.fate
          /\ inflight' = (inflight \ done) \cup Range(r.cmds)
    /\ lastMsg' = msg
    /\ UNCHANGED fnVars

\* A text input has the focus: the picker's filter or the search box.
TextFocused == app.picker # NoPicker \/ (app.view = "List" /\ app.searchMode)

FocusedText == IF app.picker # NoPicker THEN app.picker.query
               ELSE app.searchQuery

\* What the user types into a text input: characters of TypedRunes, up to
\* MaxQueryLen of them.
TypedRunes == {"d"}

KeyAllowed(key) ==
    (TextFocused /\ IsRune(key)) =>
        (key \in TypedRunes /\ Len(FocusedText) < MaxQueryLen)

\* The user presses key, one of at most budget keys.
Press(key, budget) ==
    /\ pressed < budget
    /\ pressed' = pressed + 1
    /\ KeyAllowed(key)
    /\ Dispatch(KeyMsg(key), {})
    /\ inflight' \subseteq inflight \/ Cardinality(inflight') <= MaxInflight

\* Command c completes and its message is dispatched.
Deliver(c, pages, pageInfos) ==
    /\ \E msg \in Responses(c, pages, pageInfos) : Dispatch(msg, {c})
    /\ UNCHANGED pressed

(***************************************************************************)
(* Spec: the program from its construction, through the initial loads.     *)
(***************************************************************************)
Init ==
    /\ fnPc = "idle" /\ fnIn = <<>> /\ fnPage = <<>> /\ fnOut = <<>>
    /\ \E hasKey \in BOOLEAN :
          /\ app = New(hasKey)
          /\ inflight = IF hasKey THEN {CmdLoadInitialData} ELSE {}
    /\ lastCmds = <<>>
    /\ lastMsg = NoMsg
    /\ fate = "ok"
    /\ pressed = 0

Keys == { "esc", "/", "enter", "c", "s", "d", "e", "b", "ctrl+s" }

BootPages == { <<>>, <<Issue(1, "s_completed", 1, 1, NoUser),
                       Issue(2, "s_started", 1, 1, NoUser)>> }

KeyPress == \E key \in Keys : Press(key, MaxKeys)

InitialDataDone ==
    \E c \in inflight :
        c.op = "loadInitialData" /\ Deliver(c, BootPages, {NoPageInfo})

IssuesDone ==
    \E c \in inflight :
        c.op = "loadIssues" /\ Deliver(c, BootPages, {NoPageInfo})

AllProjectIssuesDone ==
    \E c \in inflight :
        c.op = "loadAllProjectIssues" /\ Deliver(c, BootPages, {NoPageInfo})

WorkflowStatesDone ==
    \E c \in inflight :
        c.op = "loadWorkflowStates" /\ Deliver(c, BootPages, {NoPageInfo})

LabelsDone ==
    \E c \in inflight :
        c.op = "loadLabels" /\ Deliver(c, BootPages, {NoPageInfo})

UsersDone ==
    \E c \in inflight :
        c.op = "loadUsers" /\ Deliver(c, BootPages, {NoPageInfo})

CreateDone ==
    \E c \in inflight :
        c.op = "createIssue" /\ Deliver(c, BootPages, {NoPageInfo})

UpdateDone ==
    \E c \in inflight :
        c.op = "updateIssue" /\ Deliver(c, BootPages, {NoPageInfo})

DeleteDone ==
    \E c \in inflight :
        c.op = "deleteIssue" /\ Deliver(c, BootPages, {NoPageInfo})

Next ==
    \/ KeyPress
    \/ InitialDataDone
    \/ IssuesDone
    \/ AllProjectIssuesDone
    \/ WorkflowStatesDone
    \/ LabelsDone
    \/ UsersDone
    \/ CreateDone
    \/ UpdateDone
    \/ DeleteDone

Spec == Init /\ [][Next]_vars

(***************************************************************************)
(* SpecOps: the program after its initial loads have all succeeded, the    *)
(* user working in the List and Detail views and the pickers.              *)
(***************************************************************************)
MaxOpsKeys == 4

DataLoadedOk(matchedProject) ==
    [type |-> "DataLoadedMsg", err |-> NoErr, viewer |-> "me",
     teams |-> <<"t1">>, projects |-> TeamProjects,
     matchedProject |-> matchedProject]

IssuesLoadedOk(page, pageInfo) ==
    [type |-> "IssuesLoadedMsg", err |-> NoErr, issues |-> page,
     pageInfo |-> pageInfo, append |-> FALSE]

\* The model once the initial data, the first page of issues and the three
\* catalogs have been dispatched.
BootedOn(matchedProject, page, pageInfo) ==
    LET m1 == Update(New(TRUE), DataLoadedOk(matchedProject)).m
        m2 == Update(m1, IssuesLoadedOk(page, pageInfo)).m
        m3 == Update(m2, [type |-> "WorkflowStatesLoadedMsg", err |-> NoErr,
                          states |-> TeamStates]).m
        m4 == Update(m3, [type |-> "LabelsLoadedMsg", err |-> NoErr,
                          labels |-> <<"bug">>]).m
    IN  Update(m4, [type |-> "UsersLoadedMsg", err |-> NoErr,
                    users |-> TeamUsers]).m

\* The same with no project matched to the working directory.
Booted(page, pageInfo) == BootedOn(NoProject, page, pageInfo)

OpsPages ==
    { <<Issue(2, "s_started", 1, 1, NoUser)>>,
      <<Issue(1, "s_completed", 1, 1, NoUser),
        Issue(2, "s_started", 1, 1, NoUser)>> }

OpsInit ==
    /\ fnPc = "idle" /\ fnIn = <<>> /\ fnPage = <<>> /\ fnOut = <<>>
    /\ \E page \in OpsPages, pageInfo \in PageInfos :
          app = Booted(page, pageInfo)
    /\ inflight = {}
    /\ lastCmds = <<>>
    /\ lastMsg = NoMsg
    /\ fate = "ok"
    /\ pressed = 0

OpsKeys ==
    { "esc", "enter", "s", "a", "p", "r", "L", "down", "e", "ctrl+s" }

OpsKeyPress == \E key \in OpsKeys : Press(key, MaxOpsKeys)

OpsIssuesDone ==
    \E c \in inflight :
        c.op = "loadIssues" /\ Deliver(c, OpsPages, PageInfos)

OpsUpdateDone ==
    \E c \in inflight :
        c.op = "updateIssue" /\ Deliver(c, OpsPages, PageInfos)

OpsNext == OpsKeyPress \/ OpsIssuesDone \/ OpsUpdateDone

SpecOps == OpsInit /\ [][OpsNext]_vars

(***************************************************************************)
(* SpecKanban: the program after its initial loads, the user working on    *)
(* the Kanban board.                                                       *)
(***************************************************************************)
MaxKanbanKeys == 4

KanbanKeys ==
    { "b", "esc", "j", "h", "l", "left", "right", "H", "L", "m", "1", "2",
      "3" }

KanbanKeyPress == \E key \in KanbanKeys : Press(key, MaxKanbanKeys)

MoveIssueDelivered ==
    \E c \in inflight :
        c.op = "moveIssueMsg" /\ Deliver(c, OpsPages, PageInfos)

KanbanUpdateDone ==
    \E c \in inflight :
        c.op = "updateIssue" /\ Deliver(c, OpsPages, PageInfos)

KanbanNext == KanbanKeyPress \/ MoveIssueDelivered \/ KanbanUpdateDone

SpecKanban == OpsInit /\ [][KanbanNext]_vars

(***************************************************************************)
(* SpecSearch: the program after its initial loads, the user searching the *)
(* list while reloads and updates complete.                                *)
(***************************************************************************)
MaxSearchKeys == 4

SearchKeys == { "/", "d", "backspace", "enter", "esc", "r", "s" }

SearchKeyPress == \E key \in SearchKeys : Press(key, MaxSearchKeys)

SearchIssuesDone ==
    \E c \in inflight :
        c.op = "loadIssues" /\ Deliver(c, OpsPages, {NoPageInfo})

SearchUpdateDone ==
    \E c \in inflight :
        c.op = "updateIssue" /\ Deliver(c, OpsPages, {NoPageInfo})

SearchNext == SearchKeyPress \/ SearchIssuesDone \/ SearchUpdateDone

SpecSearch == OpsInit /\ [][SearchNext]_vars

(***************************************************************************)
(* SpecFilter: Model.filterIssues applied to bounded lists and queries.    *)
(***************************************************************************)
MaxFilterLen == 3

\* Issue 12's identifier begins with the identifier of issue 1.
FilterIds == {1, 2, 3, 12}

FilterRecords ==
    {Issue(i, st, 1, 1, NoUser) : i \in FilterIds,
                                  st \in {"s_started", "s_completed"}}

\* The lists the orchestrator holds: sorted, with distinct IDs.
FilterSources ==
    {p \in SeqsUpTo(FilterRecords, MaxFilterLen) :
        DistinctIds(p) /\ sortIssues(p) = p}

\* What the user types: identifiers as spelled, in lower case, a letter,
\* nothing.
FilterQueries ==
    {IssueIdentifierText(r) : r \in FilterRecords}
        \cup {ToLower(IssueIdentifierText(r)) : r \in FilterRecords}
        \cup {<<"d">>, <<>>}

FilterInit ==
    /\ fnPc = "input"
    /\ fnOut = <<>>
    /\ fnIn \in FilterSources
    /\ fnPage \in FilterQueries
    /\ app = New(TRUE)
    /\ inflight = {}
    /\ lastCmds = <<>>
    /\ lastMsg = NoMsg
    /\ fate = "ok"
    /\ pressed = 0

\* filterIssues on a model whose fetched list is the source.
ApplyFilter ==
    /\ fnPc = "input"
    /\ fnOut' = filterIssues([New(TRUE) EXCEPT
                                !.issues = fnIn,
                                !.searchQuery = fnPage]).listView.issues
    /\ fnPc' = "filtered"
    /\ UNCHANGED <<fnIn, fnPage>>
    /\ UNCHANGED appVars

\* filterIssues on the Project tab, the source being the fully loaded
\* project issues.
ApplyFilterOnProject ==
    /\ fnPc = "input"
    /\ fnIn # <<>>
    /\ fnOut' = filterIssues([New(TRUE) EXCEPT
                                !.activeTab = "Project",
                                !.currentProject = "p1",
                                !.allProjectIssues = fnIn,
                                !.searchQuery = fnPage]).listView.issues
    /\ fnPc' = "filteredProject"
    /\ UNCHANGED <<fnIn, fnPage>>
    /\ UNCHANGED appVars

FilterNext == ApplyFilter \/ ApplyFilterOnProject

SpecFilter == FilterInit /\ [][FilterNext]_vars

(***************************************************************************)
(* SpecEdit: the edit form opened on an issue, the user changing its       *)
(* fields and submitting.                                                  *)
(***************************************************************************)
\* "s_other", "u_other" and "p_other" belong to another team: the catalogs
\* are those of the first team only (app.go 351-360).
EditIssues ==
    {EditIssue(st, p, u, proj) :
        st \in {"s_started", "s_completed", "s_other"}, p \in {0, 2},
        u \in {NoUser, "u1", "u_other"},
        proj \in {NoProject, "p1", "p_other"}}

EditKeys == { "tab", "shift+tab", "left", "right", "enter", "esc", "down" }

\* The form is in fnIn, the issue it was opened on in fnPage, the payload
\* of the last submission in fnOut.
EditInit ==
    /\ fnPc = "editing"
    /\ fnOut = <<>>
    /\ \E issue \in EditIssues :
          /\ fnPage = issue
          /\ fnIn = NewEditModel(issue, TeamProjects, TeamStates, TeamUsers)
    /\ app = New(TRUE)
    /\ inflight = {}
    /\ lastCmds = <<>>
    /\ lastMsg = NoMsg
    /\ fate = "ok"
    /\ pressed = 0

\* updateEditView forwards the key to the form (app.go 925-927).
EditKeyPress ==
    /\ fnPc = "editing"
    /\ \E key \in EditKeys : fnIn' = EditUpdate(fnIn, key)
    /\ UNCHANGED <<fnPc, fnPage, fnOut>>
    /\ UNCHANGED appVars

\* ctrl+s: the payload of the update request (app.go 919-922,
\* config.go 547-550 and 726).
EditSubmit ==
    /\ fnPc = "editing"
    /\ fnOut' = EncodeUpdateInput(GetUpdateInput(fnIn))
    /\ fnPc' = "submitted"
    /\ UNCHANGED <<fnIn, fnPage>>
    /\ UNCHANGED appVars

EditNext == EditKeyPress \/ EditSubmit

SpecEdit == EditInit /\ [][EditNext]_vars

(***************************************************************************)
(* SpecTabs: the program after its initial loads, the user switching tabs  *)
(* with the keyboard and the mouse while the fetches complete in any       *)
(* order.                                                                  *)
(***************************************************************************)
MaxTabEvents == 3

TabKeys == { "tab", "shift+tab", "1", "3", "5", "r" }

\* Columns before, on and after the tabs of the header; the header's row
\* and the row above it.
ClickColumns == {0, 5, 14, 30, 60}

ClickRows == {0, 1}

MouseMsg(button, x, y) ==
    [type |-> "MouseMsg", button |-> button, action |-> "press", x |-> x,
     y |-> y]

TabsInit ==
    /\ fnPc = "idle" /\ fnIn = <<>> /\ fnPage = <<>> /\ fnOut = <<>>
    /\ \E page \in OpsPages, matchedProject \in {NoProject, "p1"} :
          app = BootedOn(matchedProject, page, NoPageInfo)
    /\ inflight = {}
    /\ lastCmds = <<>>
    /\ lastMsg = NoMsg
    /\ fate = "ok"
    /\ pressed = 0

\* The user clicks a mouse button at (x, y), one of at most budget events.
Click(button, x, y, budget) ==
    /\ pressed < budget
    /\ pressed' = pressed + 1
    /\ Dispatch(MouseMsg(button, x, y), {})

TabsKeyPress == \E key \in TabKeys : Press(key, MaxTabEvents)

TabsClick ==
    \E button \in {"left", "right"}, x \in ClickColumns, y \in ClickRows :
        Click(button, x, y, MaxTabEvents)

TabsIssuesDone ==
    \E c \in inflight :
        c.op = "loadIssues" /\ Deliver(c, OpsPages, PageInfos)

TabsNext == TabsKeyPress \/ TabsClick \/ TabsIssuesDone

SpecTabs == TabsInit /\ [][TabsNext]_vars

(***************************************************************************)
(* SpecSetup: the program started with no API key, the user pressing keys, *)
(* clicking and resizing the terminal.                                     *)
(***************************************************************************)
MaxSetupEvents == 3

SetupKeys == { "?", "esc", "enter", "tab", "r", "c", "/" }

WindowSizes == { <<80, 24>>, <<120, 40>> }

WindowSizeMsg(width, height) ==
    [type |-> "WindowSizeMsg", width |-> width, height |-> height]

\* Init with an empty cfg.Linear.APIKey, app.go 181-190: no command.
SetupInit ==
    /\ fnPc = "idle" /\ fnIn = <<>> /\ fnPage = <<>> /\ fnOut = <<>>
    /\ app = New(FALSE)
    /\ inflight = {}
    /\ lastCmds = <<>>
    /\ lastMsg = NoMsg
    /\ fate = "ok"
    /\ pressed = 0

SetupKeyPress == \E key \in SetupKeys : Press(key, MaxSetupEvents)

SetupClick ==
    \E button \in {"left", "right"}, x \in ClickColumns, y \in ClickRows :
        Click(button, x, y, MaxSetupEvents)

\* The terminal is resized, one of at most MaxSetupEvents events.
SetupResize ==
    /\ pressed < MaxSetupEvents
    /\ pressed' = pressed + 1
    /\ \E size \in WindowSizes :
          Dispatch(WindowSizeMsg(size[1], size[2]), {})

SetupIssuesDone ==
    \E c \in inflight :
        c.op = "loadIssues" /\ Deliver(c, OpsPages, {NoPageInfo})

SetupNext ==
    SetupKeyPress \/ SetupClick \/ SetupResize \/ SetupIssuesDone

SpecSetup == SetupInit /\ [][SetupNext]_vars

(***************************************************************************)
(* SpecBoard: kanban.New applied to bounded workflow-state catalogs.       *)
(***************************************************************************)
MaxCatalogLen == 3

CatalogPositions == {0, 1}

\* The catalogs GetWorkflowStates can return: distinct states, in any
\* order and with any positions.  sort.Slice sorts fewer than 12 elements
\* by insertion, as sortStatesByType does here.
StateCatalogs ==
    {c \in SeqsUpTo({WorkflowState(sid, <<>>, pos) :
                        sid \in AllStateIds, pos \in CatalogPositions},
                    MaxCatalogLen) :
        \A i, j \in DOMAIN c : c[i].id = c[j].id => i = j}

BoardInit ==
    /\ fnPc = "input"
    /\ fnOut = <<>>
    /\ fnIn \in StateCatalogs
    /\ fnPage = <<>>
    /\ app = New(TRUE)
    /\ inflight = {}
    /\ lastCmds = <<>>
    /\ lastMsg = NoMsg
    /\ fate = "ok"
    /\ pressed = 0

\* The board is built from the catalog: its columns.
BuildBoard ==
    /\ fnPc = "input"
    /\ fnOut' = KanbanNew(<<>>, fnIn).columns
    /\ fnPc' = "built"
    /\ UNCHANGED <<fnIn, fnPage>>
    /\ UNCHANGED appVars

BoardNext == BuildBoard

SpecBoard == BoardInit /\ [][BoardNext]_vars

(***************************************************************************)
(* SpecPicker: a picker opened on a candidate list, the user typing into   *)
(* its search box and moving its cursor.                                   *)
(***************************************************************************)
MaxPickerText == 3

PickerLabels ==
    << <<"a">>, <<"A", "b">>, <<"b">>, <<"B", " ", "a">>, <<"d">>,
       <<"W", "a">>, <<"X", "a", "d">> >>

\* The candidate lists: none, two, and seven candidates; the last of the
\* seven is found by its description only.
PickerCandidates ==
    { <<>>,
      << PickerItem("1", <<"a">>), PickerItem("2", <<"b">>) >>,
      [i \in 1..7 |->
          IF i = 7
          THEN [PickerItem("7", <<"7">>) EXCEPT !.desc = <<"a", "b">>]
          ELSE PickerItem(PickerLabels[i][1], PickerLabels[i])] }

\* The heights of the terminal: room for 5 and for 6 candidates.
PickerHeights == {12, 16}

PickerRunes == {"a", "b", " "}

PickerKeys ==
    PickerRunes \cup {"backspace", "up", "down", "home", "end", "enter",
                      "ctrl+j", "ctrl+k", "ctrl+g"}

PickerInit ==
    /\ fnPc = "picker"
    /\ \E items \in PickerCandidates : fnIn = NewPickerModel("Pick", items)
    /\ \E height \in PickerHeights : fnPage = [height |-> height, key |-> ""]
    /\ fnOut = PickerView(fnIn, fnPage.height)
    /\ app = New(TRUE)
    /\ inflight = {}
    /\ lastCmds = <<>>
    /\ lastMsg = NoMsg
    /\ fate = "ok"
    /\ pressed = 0

\* A key goes to PickerModel.Update and the frame is drawn; the search
\* text is kept to MaxPickerText characters.
PickerKeyPress ==
    /\ fnPc = "picker"
    /\ \E key \in PickerKeys :
          /\ key \in PickerRunes => Len(fnIn.query) < MaxPickerText
          /\ fnIn' = PickerUpdate(fnIn, key)
          /\ fnPage' = [fnPage EXCEPT !.key = key]
    /\ fnOut' = PickerView(fnIn', fnPage.height)
    /\ UNCHANGED fnPc
    /\ UNCHANGED appVars

PickerNext == PickerKeyPress

SpecPicker == PickerInit /\ [][PickerNext]_vars

(***************************************************************************)
(* SpecList: a list view constructed on a list of issues, the user         *)
(* navigating it and resizing the terminal.                                *)
(***************************************************************************)
MaxListLen == 4

\* The first n of the issues 1, 2, ..., in the order the orchestrator
\* holds them.
ListIssues(n) == [i \in 1..n |-> Issue(i, "s_started", 1, 1, NoUser)]

\* Heights giving page sizes 10 (fallback), 10 (fallback), 1, 2 and 10.
ListHeights == {0, 2, 3, 4, 12}

ListKeys ==
    {"up", "k", "down", "j", "home", "g", "end", "G", "pgup", "ctrl+u",
     "pgdown", "ctrl+d"}

ListInit ==
    /\ fnPc = "new"
    /\ \E n \in 0..MaxListLen, height \in ListHeights :
          /\ fnPage = [issues |-> ListIssues(n), height |-> height,
                       key |-> ""]
          /\ fnIn = NewListModel(ListIssues(n), 80, height)
    /\ fnOut = ListView(fnIn)
    /\ app = New(TRUE)
    /\ inflight = {}
    /\ lastCmds = <<>>
    /\ lastMsg = NoMsg
    /\ fate = "ok"
    /\ pressed = 0

\* A key goes to ListModel.Update and the frame is drawn.
ListKeyPress ==
    /\ \E key \in ListKeys :
          /\ fnIn' = ListUpdate(fnIn, key)
          /\ fnPage' = [fnPage EXCEPT !.key = key]
    /\ fnOut' = ListView(fnIn')
    /\ fnPc' = "navigated"
    /\ UNCHANGED appVars

\* The terminal is resized: ListModel.SetSize, and the frame is drawn.
ListResize ==
    /\ \E height \in ListHeights :
          /\ fnIn' = ListSetSize(fnIn, 80, height)
          /\ fnPage' = [fnPage EXCEPT !.height = height, !.key = ""]
    /\ fnOut' = ListView(fnIn')
    /\ fnPc' = "resized"
    /\ UNCHANGED appVars

ListNext == ListKeyPress \/ ListResize

SpecList == ListInit /\ [][ListNext]_vars

(***************************************************************************)
(* SpecDetail: a detail view opened on an issue, the user scrolling it and *)
(* resizing the terminal.                                                  *)
(***************************************************************************)
\* Issue 1 has an empty description, issue 2 has one.
DetailIssues ==
    {Issue(id, st, p, 1, u) :
        id \in {1, 2}, st \in {NoState, "s_started", "s_completed"},
        p \in {0, 1}, u \in {NoUser, "u1"}}

\* Heights of the view: less and more than the lines of an issue.
DetailHeights == {2, 20}

DetailKeys == {"up", "k", "down", "j", "home", "g", "end", "G", "x"}

DetailInit ==
    /\ fnPc = "new"
    /\ \E issue \in DetailIssues, height \in DetailHeights :
          fnIn = NewDetailModel(issue, 80, height)
    /\ fnPage = [key |-> ""]
    /\ fnOut = DetailView(fnIn)
    /\ app = New(TRUE)
    /\ inflight = {}
    /\ lastCmds = <<>>
    /\ lastMsg = NoMsg
    /\ fate = "ok"
    /\ pressed = 0

\* A key goes to DetailModel.Update and the frame is drawn.
DetailKeyPress ==
    /\ \E key \in DetailKeys :
          /\ fnIn' = DetailUpdate(fnIn, key)
          /\ fnPage' = [key |-> key]
    /\ fnOut' = DetailView(fnIn')
    /\ fnPc' = "scrolled"
    /\ UNCHANGED appVars

\* The terminal is resized: DetailModel.SetSize, and the frame is drawn.
DetailResize ==
    /\ \E height \in DetailHeights, width \in {40, 80} :
          fnIn' = DetailSetSize(fnIn, width, height)
    /\ fnPage' = [key |-> ""]
    /\ fnOut' = DetailView(fnIn')
    /\ fnPc' = "resized"
    /\ UNCHANGED appVars

DetailNext == DetailKeyPress \/ DetailResize

SpecDetail == DetailInit /\ [][DetailNext]_vars

(***************************************************************************)
(* SpecEmptyBoard: the program from its construction, the user opening the *)
(* Kanban board while the initial loads are still under way.               *)
(***************************************************************************)
MaxBoardKeys == 3

EmptyBoardKeys ==
    { "b", "j", "k", "up", "down", "g", "G", "home", "end", "m", "H", "L",
      "h", "l", "esc" }

EmptyBoardKeyPress == \E key \in EmptyBoardKeys : Press(key, MaxBoardKeys)

EmptyBoardNext ==
    \/ EmptyBoardKeyPress
    \/ InitialDataDone
    \/ IssuesDone
    \/ WorkflowStatesDone

SpecEmptyBoard == Init /\ [][EmptyBoardNext]_vars

(***************************************************************************)
(* SpecPaging: the program after its initial data arrived, the first page  *)
(* of My Issues being fetched, the user asking for more.                   *)
(***************************************************************************)
MaxPagingKeys == 3

\* A page of three issues, and a page of two of which one is on the first.
PagingFirstPage ==
    << Issue(1, "s_started", 2, 1, NoUser),
       Issue(2, "s_unstarted", 1, 1, NoUser),
       Issue(3, "s_completed", 1, 1, NoUser) >>

PagingSecondPage ==
    << Issue(3, "s_completed", 1, 1, NoUser),
       Issue(4, "s_started", 1, 1, NoUser) >>

PagingPages == {PagingFirstPage, PagingSecondPage}

PagingKeys == {"L", "r", "down", "enter", "esc"}

\* DataLoadedMsg has been dispatched: loading is still true and the fetch
\* of the first page is in flight.
PagingInit ==
    /\ fnPc = "idle" /\ fnIn = <<>> /\ fnPage = <<>> /\ fnOut = <<>>
    /\ \E r \in {Update(New(TRUE), DataLoadedOk(NoProject))} :
          /\ app = r.m
          /\ inflight = {c \in Range(r.cmds) : c.op = "loadIssues"}
    /\ lastCmds = <<>>
    /\ lastMsg = NoMsg
    /\ fate = "ok"
    /\ pressed = 0

PagingKeyPress == \E key \in PagingKeys : Press(key, MaxPagingKeys)

PagingIssuesDone ==
    \E c \in inflight :
        c.op = "loadIssues" /\ Deliver(c, PagingPages, PageInfos)

PagingNext == PagingKeyPress \/ PagingIssuesDone

SpecPaging == PagingInit /\ [][PagingNext]_vars

(***************************************************************************)
(* SpecForm: the program after its initial loads, the user changing an     *)
(* issue's status from the detail view and opening the edit form while the *)
(* update is outstanding.                                                  *)
(***************************************************************************)
MaxFormKeys == 8

FormKeys == { "enter", "s", "esc", "down", "e", "ctrl+s" }

FormKeyPress == \E key \in FormKeys : Press(key, MaxFormKeys)

FormUpdateDone ==
    \E c \in inflight :
        c.op = "updateIssue" /\ Deliver(c, OpsPages, {NoPageInfo})

FormNext == FormKeyPress \/ FormUpdateDone

SpecForm == OpsInit /\ [][FormNext]_vars

(***************************************************************************)
(* SpecHelp: the program after its initial loads, the user opening the     *)
(* help overlay and pressing keys.                                         *)
(***************************************************************************)
MaxHelpKeys == 3

HelpKeys == { "?", "esc", "r", "down", "enter", "d", "c" }

HelpKeyPress == \E key \in HelpKeys : Press(key, MaxHelpKeys)

HelpIssuesDone ==
    \E c \in inflight :
        c.op = "loadIssues" /\ Deliver(c, OpsPages, {NoPageInfo})

HelpDeleteDone ==
    \E c \in inflight :
        c.op = "deleteIssue" /\ Deliver(c, OpsPages, {NoPageInfo})

HelpNext == HelpKeyPress \/ HelpIssuesDone \/ HelpDeleteDone

SpecHelp == OpsInit /\ [][HelpNext]_vars

(***************************************************************************)
(* SpecColumns: a board built from a list of issues and a catalog of       *)
(* workflow states, the user pressing the board's keys.                    *)
(***************************************************************************)
MaxColumnIssues == 4

ColumnStates ==
    { WorkflowState("s_backlog", <<>>, 0), WorkflowState("s_started", <<>>, 0),
      WorkflowState("s_completed", <<>>, 1) }

\* The catalogs: distinct states in any order, also none at all.
ColumnCatalogs ==
    {c \in SeqsUpTo(ColumnStates, Cardinality(ColumnStates)) : DistinctIds(c)}

\* The issue lists: the n-th issue has id n; its state is one of the three
\* states, in the catalog or not, or nil.
ColumnIssueLists ==
    UNION { {[n \in 1..k |-> Issue(n, st[n], 1, 1, NoUser)] :
                st \in [1..k -> {s.id : s \in ColumnStates} \cup {NoState}]} :
            k \in 0..MaxColumnIssues }

ColumnKeys ==
    { "h", "l", "left", "j", "k", "g", "G", "m", "esc", "H", "L", "1", "2" }

\* The board is in fnIn, what it was built from in fnPage, the commands of
\* the last key in fnOut.
ColumnsInit ==
    /\ fnPc = "new"
    /\ fnOut = <<>>
    /\ \E issueList \in ColumnIssueLists, states \in ColumnCatalogs :
          /\ fnPage = [issues |-> issueList, states |-> states]
          /\ fnIn = KanbanNew(issueList, states)
    /\ app = New(TRUE)
    /\ inflight = {}
    /\ lastCmds = <<>>
    /\ lastMsg = NoMsg
    /\ fate = "ok"
    /\ pressed = 0

\* Model.Update on a key, kanban.go 60-69; a panic ends the program.
ColumnsKeyPress ==
    /\ fnPc \in {"new", "navigated"}
    /\ \E key \in ColumnKeys :
          \E r \in {KanbanUpdate(fnIn, key)} :
             IF r.fate = "panic"
             THEN fnPc' = "panicked" /\ UNCHANGED <<fnIn, fnOut>>
             ELSE fnPc' = "navigated" /\ fnIn' = r.kv /\ fnOut' = r.cmds
    /\ UNCHANGED fnPage
    /\ UNCHANGED appVars

ColumnsNext == ColumnsKeyPress

SpecColumns == ColumnsInit /\ [][ColumnsNext]_vars

(***************************************************************************)
(* SpecSort: the pure functions applied to inputs drawn from bounded sets. *)
(***************************************************************************)
MaxSortLen == 3
MaxIds == 3
MaxPageLen == 3

\* Every sort key the comparator distinguishes: every state type (and no
\* state), every priority, two update times.
FullKeys ==
    [state : AllStateIds \cup {NoState}, priority : 0..4, updatedAt : {1, 2}]

\* Keys with ties between different records (no state ranks as unstarted).
SmallKeys ==
    [state : {NoState, "s_unstarted", "s_started"}, priority : {0, 2},
     updatedAt : {1, 2}]

\* A list of issues from a list of keys: the issue at position i has ID i.
WithIds(keys) ==
    [i \in DOMAIN keys |->
        Issue(i, keys[i].state, keys[i].priority, keys[i].updatedAt, NoUser)]

SortInputs ==
    {WithIds(k) : k \in SeqsUpTo(FullKeys, 2)}
        \cup {WithIds(k) : k \in [1..MaxSortLen -> SmallKeys]}

PageIssues ==
    {Issue(i, st, 1, 1, NoUser) : i \in 1..MaxIds,
                                  st \in {"s_started", "s_completed"}}

\* A page of the remote service: distinct records, so distinct IDs.
Pages == {p \in SeqsUpTo(PageIssues, MaxPageLen) : DistinctIds(p)}

\* The lists the orchestrator holds: results of sortIssues, IDs distinct.
ExistingLists == {p \in Pages : sortIssues(p) = p}

SortInit ==
    /\ fnPc = "input"
    /\ fnOut = <<>>
    /\ \/ fnIn \in SortInputs /\ fnPage = <<>>
       \/ fnIn \in ExistingLists /\ fnPage \in Pages
    /\ app = New(TRUE)
    /\ inflight = {}
    /\ lastCmds = <<>>
    /\ lastMsg = NoMsg
    /\ fate = "ok"
    /\ pressed = 0

\* sorted := sortIssues(x); the caller's list x is left as it is
\* (app.go 1472-1473 sorts a copy).
ApplySort ==
    /\ fnPc = "input"
    /\ fnPage = <<>>
    /\ fnOut' = sortIssues(fnIn)
    /\ fnPc' = "sorted"
    /\ UNCHANGED <<fnIn, fnPage>>
    /\ UNCHANGED appVars

\* sortIssues applied to its own result.
ApplySortAgain ==
    /\ fnPc = "sorted"
    /\ fnIn' = fnOut
    /\ fnOut' = sortIssues(fnOut)
    /\ fnPc' = "resorted"
    /\ UNCHANGED fnPage
    /\ UNCHANGED appVars

\* The append branch of the IssuesLoadedMsg handler on (existing, page).
ApplyAppend ==
    /\ fnPc = "input"
    /\ fnIn \in ExistingLists
    /\ fnOut' = applyAppendedPage(fnIn, fnPage)
    /\ fnPc' = "appended"
    /\ UNCHANGED <<fnIn, fnPage>>
    /\ UNCHANGED appVars

SortNext == ApplySort \/ ApplySortAgain \/ ApplyAppend

SpecSort == SortInit /\ [][SortNext]_vars

(***************************************************************************)
(* The sort key as the specification states it.                            *)
(***************************************************************************)
ClaimStateRank(issue) ==
    IF issue.state = NoState THEN 1
    ELSE CASE StateType(issue.state) = "started" -> 0
           [] StateType(issue.state) = "unstarted" -> 1
           [] StateType(issue.state) = "backlog" -> 2
           [] StateType(issue.state) = "triage" -> 3
           [] StateType(issue.state) = "completed" -> 4
           [] StateType(issue.state) = "canceled" -> 5
           [] OTHER -> 3

ClaimPriorityRank(issue) == IF issue.priority = 0 THEN 5 ELSE issue.priority

SameKey(a, b) ==
    /\ ClaimStateRank(a) = ClaimStateRank(b)
    /\ ClaimPriorityRank(a) = ClaimPriorityRank(b)
    /\ a.updatedAt = b.updatedAt

\* a may stand before b: a's key is not after b's.
KeyNotAfter(a, b) ==
    \/ ClaimStateRank(a) < ClaimStateRank(b)
    \/ /\ ClaimStateRank(a) = ClaimStateRank(b)
       /\ \/ ClaimPriorityRank(a) < ClaimPriorityRank(b)
          \/ /\ ClaimPriorityRank(a) = ClaimPriorityRank(b)
             /\ a.updatedAt >= b.updatedAt

OrderedByKey(s) == \A i, j \in DOMAIN s : i < j => KeyNotAfter(s[i], s[j])

IsPermutation(s, t) ==
    /\ Len(s) = Len(t)
    /\ \E f \in [DOMAIN s -> DOMAIN t] :
          /\ \A i, j \in DOMAIN s : f[i] = f[j] => i = j
          /\ \A i \in DOMAIN s : s[i] = t[f[i]]

\* The position in s of the issue with the given ID (IDs distinct).
PosOf(s, id) == CHOOSE i \in DOMAIN s : s[i].id = id

\* C5: an appended page of N issues, K of them already in the list, makes
\* the list grow by exactly N - K, leaves no two entries with one
\* identifier, and the combined list is in sort order.
C5_AppendGrowsByNewIdentifiers ==
    fnPc = "appended" =>
        LET K == Cardinality({j \in DOMAIN fnPage : fnPage[j].id \in Ids(fnIn)})
        IN  /\ Len(fnOut) = Len(fnIn) + Len(fnPage) - K
            /\ DistinctIds(fnOut)
            /\ Ids(fnOut) = Ids(fnIn) \cup Ids(fnPage)
            /\ OrderedByKey(fnOut)

C5_Witness ==
    /\ fnPc = "appended"
    /\ Len(fnPage) = 3
    /\ Cardinality({j \in DOMAIN fnPage : fnPage[j].id \in Ids(fnIn)}) = 1
    /\ Len(fnOut) = Len(fnIn) + 2

\* C6: sortIssues returns a permutation of its input ordered by (state-type
\* rank, priority rank with 0 as 5, updated time descending), and the input
\* list is not modified by the call.
C6_SortIsOrderedPermutation ==
    [][(fnPc = "input" /\ fnPc' = "sorted") =>
          /\ fnIn' = fnIn
          /\ IsPermutation(fnOut', fnIn)
          /\ OrderedByKey(fnOut')]_fnVars

C6_Witness ==
    /\ fnPc = "sorted"
    /\ Len(fnIn) = 3
    /\ fnOut # fnIn
    /\ \E i \in DOMAIN fnIn : fnIn[i].state = NoState
    /\ \E i \in DOMAIN fnIn : fnIn[i].priority = 0

\* C7: sort(sort(x)) = sort(x), and two issues with equal sort keys stand in
\* sort(x) in the relative order they have in x.
C7_SortIdempotentAndStable ==
    /\ fnPc = "resorted" => fnOut = fnIn
    /\ fnPc = "sorted" =>
          \A i, j \in DOMAIN fnIn :
              (i < j /\ SameKey(fnIn[i], fnIn[j])) =>
                  PosOf(fnOut, fnIn[i].id) < PosOf(fnOut, fnIn[j].id)

C7_Witness ==
    /\ fnPc = "sorted"
    /\ fnOut # fnIn
    /\ \E i, j \in DOMAIN fnIn :
          /\ i < j
          /\ SameKey(fnIn[i], fnIn[j])
          /\ fnIn[i].state # fnIn[j].state

(***************************************************************************)
(* Claims about the completion events (specification Spec).                *)
(***************************************************************************)
CompletionTypes ==
    { "DataLoadedMsg", "IssuesLoadedMsg", "AllProjectIssuesLoadedMsg",
      "WorkflowStatesLoadedMsg", "LabelsLoadedMsg", "UsersLoadedMsg",
      "IssueUpdatedMsg", "IssueCreatedMsg", "IssueDeletedMsg" }

IsErrorCompletion(msg) == msg.type \in CompletionTypes /\ msg.err # NoErr

\* C1: dispatching a completion event that carries an error sets an
\* error-marked status message, issues no command, and changes nothing of
\* the model besides the status and the loading / loading-more flags, which
\* it may only clear: view, tab, issue list, list view, current issue,
\* pagination info, catalogs and picker stay as they were.
C1_ErrorCompletionOnlySetsStatus ==
    [][ IsErrorCompletion(lastMsg') =>
          /\ fate' = "ok"
          /\ app'.statusErr
          /\ app'.statusMsg # ""
          /\ lastCmds' = <<>>
          /\ inflight' \subseteq inflight
          /\ app' = [app EXCEPT !.statusMsg = app'.statusMsg,
                                !.statusErr = app'.statusErr,
                                !.loading = app'.loading,
                                !.loadingMore = app'.loadingMore]
          /\ app'.loading => app.loading
          /\ app'.loadingMore => app.loadingMore ]_vars

\* A failed update arrived while a picker was open over a loaded list.
C1_Witness ==
    /\ lastMsg.type = "IssueUpdatedMsg"
    /\ lastMsg.err # NoErr
    /\ app.statusErr
    /\ app.picker # NoPicker
    /\ app.issues # <<>>
    /\ app.states # <<>>

\* C2: whatever completion event the client delivers (a record, no record,
\* or an error), Update returns and the program keeps running.
C2_CompletionNeverTerminates ==
    lastMsg.type \in CompletionTypes => fate = "ok"

(***************************************************************************)
(* Claims about updates, pagination and the pickers (specification         *)
(* SpecOps).                                                               *)
(***************************************************************************)
IsUpdateSuccess(msg) ==
    msg.type = "IssueUpdatedMsg" /\ msg.err = NoErr /\ msg.issue # NoIssue

\* The list with the entry of record's identifier replaced by record.
ClaimReplaced(issueList, record) ==
    [i \in DOMAIN issueList |->
        IF issueList[i].id = record.id THEN record ELSE issueList[i]]

\* C3: on a successful update response for issue X, if the issue list has
\* an entry with X's identifier, the entry is replaced by the response
\* record and the list re-sorted (same length, same identifiers); if it has
\* none, the issue list is unchanged and the program keeps running.
C3_UpdateReplacesAndResorts ==
    [][ IsUpdateSuccess(lastMsg') =>
          /\ fate' = "ok"
          /\ IF lastMsg'.issue.id \in Ids(app.issues)
             THEN /\ Len(app'.issues) = Len(app.issues)
                  /\ Ids(app'.issues) = Ids(app.issues)
                  /\ IsPermutation(app'.issues,
                                   ClaimReplaced(app.issues, lastMsg'.issue))
                  /\ OrderedByKey(app'.issues)
             ELSE app'.issues = app.issues ]_vars

\* The response record of an update took the place of the list's entry.
C3_Witness ==
    /\ IsUpdateSuccess(lastMsg)
    /\ Len(app.issues) = 2
    /\ app.issues[1] = lastMsg.issue
    /\ lastMsg.issue.state = "s_started"
    /\ lastMsg.issue.id = 1

IsListKey(key) ==
    /\ lastMsg' = KeyMsg(key)
    /\ pressed' = pressed + 1
    /\ app.view = "List"
    /\ app.picker = NoPicker
    /\ ~app.searchMode

\* C4: in the List view, L pressed while pageInfo.hasNextPage holds and no
\* append is in flight issues exactly one fetch of the active tab's issues
\* from the stored end cursor; otherwise L issues no fetch.
C4_LoadMoreIssuesOneAppendFetch ==
    [][ IsListKey("L") =>
          IF app.pageInfo.hasNextPage /\ ~app.loadingMore
          THEN lastCmds' = <<Cmd("loadIssues", app.activeTab,
                                 app.pageInfo.endCursor, 0, "-",
                                 app.filterProject)>>
          ELSE lastCmds' = <<>> ]_vars

IsPickerEnter ==
    /\ lastMsg' = KeyMsg("enter")
    /\ pressed' = pressed + 1
    /\ ~app.showHelp
    /\ app.picker # NoPicker
    /\ app.pickerType \in {"status", "assignee", "priority"}
    /\ app.currentIssue # NoIssue
    /\ PickerSelectedItem(app.picker) # NoItem

ClaimPickerField == [status |-> "stateId", assignee |-> "assigneeId",
                     priority |-> "priority"]

\* C8: enter on a highlighted candidate of a status, assignee or priority
\* picker closes the picker (no picker, picker type cleared) and issues
\* exactly one update of the current issue carrying the candidate's
\* identifier; when its success response is dispatched, the current issue
\* shows the response's record.
C8_PickerEnterClosesAndUpdates ==
    [][ /\ IsPickerEnter =>
             /\ app'.picker = NoPicker
             /\ app'.pickerType = ""
             /\ lastCmds' = <<Cmd("updateIssue", "-", "", app.currentIssue.id,
                                  ClaimPickerField[app.pickerType],
                                  PickerSelectedItem(app.picker).id)>>
        /\ (IsUpdateSuccess(lastMsg') /\ app.currentIssue # NoIssue
               /\ app.currentIssue.id = lastMsg'.issue.id) =>
             app'.currentIssue = lastMsg'.issue ]_vars

(***************************************************************************)
(* Claims about the Kanban board (specification SpecKanban).               *)
(***************************************************************************)
\* The keys that ask to move the selected issue.
ClaimIsMoveKey(kv, key) ==
    IF kv.moveMode
    THEN key \in {"h", "left", "l", "right", "1", "2", "3", "4", "5", "6",
                  "7", "8", "9"}
    ELSE key \in {"H", "L"}

\* The column a move key names, counted from 0.
ClaimMoveTarget(kv, key) ==
    CASE key \in {"h", "left", "H"} -> kv.activeColumn - 1
      [] key \in {"l", "right", "L"} -> kv.activeColumn + 1
      [] OTHER -> DigitIndex(key)

IsKanbanKey ==
    /\ lastMsg'.type = "KeyMsg"
    /\ pressed' = pressed + 1
    /\ app.view = "Kanban"
    /\ app.picker = NoPicker
    /\ ~app.showHelp

\* C9: a move request on the board (H/L, or move mode and then
\* h/l/left/right or a digit) that names an existing column other than the
\* active one, with an issue selected, emits exactly one request to set the
\* selected issue's state to the target column's state, which Update turns
\* into exactly one update of that issue's state; any other move request
\* emits nothing; no move request changes a column's issues or cursor or
\* the active column.
C9_KanbanMoveEmitsOneRequest ==
    [][ /\ (IsKanbanKey /\ ClaimIsMoveKey(app.kanbanView, lastMsg'.key)) =>
             LET kv == app.kanbanView
                 target == ClaimMoveTarget(kv, lastMsg'.key)
                 selected == KanbanSelectedIssue(kv)
             IN  /\ fate' = "ok"
                 /\ app'.kanbanView.columns = kv.columns
                 /\ app'.kanbanView.activeColumn = kv.activeColumn
                 /\ IF /\ target >= 0 /\ target < Len(kv.columns)
                       /\ target # kv.activeColumn
                       /\ selected # NoIssue
                    THEN lastCmds' =
                           <<[op |-> "moveIssueMsg", tab |-> "-",
                              cursor |-> "", id |-> selected.id,
                              field |-> "-",
                              arg |-> kv.columns[target + 1].state.id]>>
                    ELSE lastCmds' = <<>>
        /\ lastMsg'.type = "MoveIssueMsg" =>
             /\ app' = app
             /\ lastCmds' = <<Cmd("updateIssue", "-", "", lastMsg'.issueID,
                                  "stateId", lastMsg'.stateID)>> ]_vars

\* In move mode a digit sent the selected issue to another column.
C9_Witness ==
    /\ lastMsg = KeyMsg("2")
    /\ app.view = "Kanban"
    /\ Len(lastCmds) = 1
    /\ lastCmds[1].op = "moveIssueMsg"
    /\ lastCmds[1].arg = "s_completed"
    /\ ~app.kanbanView.moveMode

\* The board shows record in the column of its state and in no other.
ClaimBoardShows(kv, record) ==
    \A i \in DOMAIN kv.columns :
        (record.id \in Ids(kv.columns[i].issues))
            <=> (kv.columns[i].state.id = record.state)

\* C10: once the success response of a move is dispatched with the Kanban
\* view still active, the moved issue is in the column of its new state
\* and in no other column.
C10_BoardReflectsMove ==
    (IsUpdateSuccess(lastMsg) /\ app.view = "Kanban") =>
        ClaimBoardShows(app.kanbanView, lastMsg.issue)

(***************************************************************************)
(* Search.                                                                 *)
(***************************************************************************)
\* The issues of the search source that match the query, in the source's
\* order.
ClaimSearchSource ==
    IF app.activeTab = "Project" /\ app.allProjectIssues # <<>>
    THEN app.allProjectIssues ELSE app.issues

ClaimMatches(issue, query) ==
    \/ Contains(ToLower(IssueTitle(issue)), ToLower(query))
    \/ Contains(ToLower(IssueIdentifierText(issue)), ToLower(query))
    \/ Contains(ToLower(IssueDescription(issue)), ToLower(query))

\* C11: whenever the search query is not empty, the List view displays the
\* issues of the search source that match the query, after any sequence of
\* keys, issue-list responses and mutation responses.
C11_ListShowsFilteredWhileQuerySet ==
    (app.view = "List" /\ app.searchQuery # <<>>) =>
        /\ \A i \in DOMAIN app.listView.issues :
               ClaimMatches(app.listView.issues[i], app.searchQuery)
        /\ \A i \in DOMAIN ClaimSearchSource :
               ClaimMatches(ClaimSearchSource[i], app.searchQuery) =>
                   ClaimSearchSource[i].id \in Ids(app.listView.issues)

\* A key that clears the search: esc in search mode, or a key in search mode
\* that leaves the query empty when it was not.
IsSearchClear ==
    /\ lastMsg'.type = "KeyMsg"
    /\ app.view = "List" /\ app.picker = NoPicker /\ app.searchMode
    /\ ~(app.showHelp /\ lastMsg'.key = "esc")
    /\ lastMsg'.key \notin {"ctrl+c", "?"}
    /\ \/ lastMsg'.key = "esc"
       \/ app.searchQuery # <<>> /\ app'.searchQuery = <<>>

\* C13: clearing the search query (esc in search mode, or deleting the query
\* back to the empty string) makes the List view display the full, sorted
\* issue list and issues no fetch.
C13_ClearingSearchRestoresList ==
    [][ IsSearchClear =>
          /\ fate' = "ok"
          /\ app'.searchQuery = <<>>
          /\ app'.issues = app.issues
          /\ app'.listView.issues = app'.issues
          /\ OrderedByKey(app'.listView.issues)
          /\ lastCmds' = <<>>
          /\ inflight' = inflight ]_vars

\* The query was deleted with backspace in search mode over a list of two.
C13_Witness ==
    /\ lastMsg = KeyMsg("backspace")
    /\ pressed = 3
    /\ app.view = "List" /\ app.searchMode /\ app.searchQuery = <<>>
    /\ Len(app.issues) = 2
    /\ app.listView.issues = app.issues

\* The filter has been applied to a query that is the identifier of an
\* issue of the source.
ClaimQueryIsIdentifierOf(issue) ==
    /\ fnPc \in {"filtered", "filteredProject"}
    /\ issue.id \in Ids(fnIn)
    /\ fnPage = IssueIdentifierText(issue)

ClaimTextContains(text, query) == Contains(ToLower(text), ToLower(query))

\* C12 as stated: filtering with a query equal to an existing issue's
\* identifier yields exactly that issue plus the other issues whose title or
\* description contains the query, case-insensitively, and nothing else.
C12_IdentifierQueryTitleOrDescription ==
    \A i \in DOMAIN fnIn :
        ClaimQueryIsIdentifierOf(fnIn[i]) =>
            Range(fnOut) =
                {fnIn[i]} \cup
                {b \in Range(fnIn) :
                    \/ ClaimTextContains(IssueTitle(b), fnPage)
                    \/ ClaimTextContains(IssueDescription(b), fnPage)}

\* C12, amended: filtering with a query equal to an existing issue's
\* identifier yields exactly that issue plus the other issues whose title,
\* identifier or description contains the query, case-insensitively, each
\* once.
C12_IdentifierQueryAnyField ==
    \A i \in DOMAIN fnIn :
        ClaimQueryIsIdentifierOf(fnIn[i]) =>
            /\ fnIn[i] \in Range(fnOut)
            /\ Range(fnOut) =
                  {fnIn[i]} \cup
                  {b \in Range(fnIn) :
                      \/ ClaimTextContains(IssueTitle(b), fnPage)
                      \/ ClaimTextContains(IssueIdentifierText(b), fnPage)
                      \/ ClaimTextContains(IssueDescription(b), fnPage)}
            /\ DistinctIds(fnOut)

\* The query X1 over issues 1, 2, 3 and then 12: issue 1 by its identifier,
\* issue 3 by its title, issue 2 not at all.
C12_Witness ==
    /\ fnPc = "filtered"
    /\ fnPage = <<"X", "1">>
    /\ Ids(fnIn) = {1, 2, 3}
    /\ Ids(fnOut) = {1, 3}

(***************************************************************************)
(* The edit form.                                                          *)
(***************************************************************************)
\* C14: the payload of a form whose project is None (or whose assignee is
\* Unassigned) carries an explicit null for that field instead of leaving
\* the field out, which is what a payload that leaves it unchanged does.
C14_UnsetFieldIsExplicitNull ==
    fnPc = "submitted" =>
        /\ fnIn.selectedProject = -1 =>
               ("projectId" \in DOMAIN fnOut /\ fnOut["projectId"] = JsonNull)
        /\ fnIn.selectedAssignee = -1 =>
               ("assigneeId" \in DOMAIN fnOut
                    /\ fnOut["assigneeId"] = JsonNull)

(***************************************************************************)
(* Tabs and fetches of the issue list.                                     *)
(***************************************************************************)
\* The tabs of the header, left to right.
ClaimTabs ==
    IF app.currentProject # NoProject
    THEN <<"Project", "MyIssues", "AllIssues", "Active", "Backlog">>
    ELSE <<"MyIssues", "AllIssues", "Active", "Backlog">>

ClaimTabPos(tab) == CHOOSE i \in DOMAIN ClaimTabs : ClaimTabs[i] = tab

\* The column at which the i-th tab starts: the header's padding of one,
\* then every tab's name with two columns on either side.
RECURSIVE ClaimTabStart(_)
ClaimTabStart(i) ==
    IF i = 1 THEN 1
    ELSE ClaimTabStart(i - 1) + TabNameLen(ClaimTabs[i - 1]) + 4

\* The tab a key of the List view selects, "" if none.
ClaimKeyTarget(key) ==
    LET n == Len(ClaimTabs)
        pos == ClaimTabPos(app.activeTab)
    IN  CASE key = "tab" -> ClaimTabs[(pos % n) + 1]
          [] key = "shift+tab" -> ClaimTabs[((pos + n - 2) % n) + 1]
          [] key \in {"1", "2", "3", "4", "5"} ->
                LET d == CHOOSE i \in 1..5 : ToString(i) = key
                IN  IF d <= n THEN ClaimTabs[d] ELSE ""
          [] OTHER -> ""

\* The tab under a click, "" if none.
ClaimClickTarget(msg) ==
    IF /\ msg.button = "left" /\ msg.action = "press" /\ msg.y = 1
       /\ \E i \in DOMAIN ClaimTabs :
              /\ msg.x >= ClaimTabStart(i)
              /\ msg.x < ClaimTabStart(i) + TabNameLen(ClaimTabs[i]) + 4
    THEN ClaimTabs[CHOOSE i \in DOMAIN ClaimTabs :
                      /\ msg.x >= ClaimTabStart(i)
                      /\ msg.x < ClaimTabStart(i)
                                     + TabNameLen(ClaimTabs[i]) + 4]
    ELSE ""

\* The tab the event being dispatched switches the List view to, "" if the
\* event is no tab switch.
ClaimSwitchTarget ==
    LET target ==
            IF app.view # "List" THEN ""
            ELSE IF lastMsg'.type = "MouseMsg"
            THEN ClaimClickTarget(lastMsg')
            ELSE IF /\ lastMsg'.type = "KeyMsg"
                    /\ app.picker = NoPicker /\ ~app.searchMode
            THEN ClaimKeyTarget(lastMsg'.key)
            ELSE ""
    IN  IF target = app.activeTab THEN "" ELSE target

\* C15: switching tabs in the List view (tab, shift+tab, a digit selecting
\* a different tab, or a click on another tab) sets the active tab, sets
\* loading, issues exactly one fetch for the new tab with an empty cursor
\* and leaves the issue list as it is; the issue list changes only when an
\* issue-list response is dispatched.
C15_TabSwitchFetchesAndKeepsList ==
    [][ /\ ClaimSwitchTarget # "" =>
              /\ fate' = "ok"
              /\ app'.activeTab = ClaimSwitchTarget
              /\ app'.loading
              /\ Len(lastCmds') = 1
              /\ lastCmds'[1].op = "loadIssues"
              /\ lastCmds'[1].tab = ClaimSwitchTarget
              /\ lastCmds'[1].cursor = ""
              /\ app'.issues = app.issues
              /\ app'.listView = app.listView
        /\ app'.issues # app.issues => lastMsg'.type = "IssuesLoadedMsg"
      ]_vars

\* A click on the third tab switched to it over a list of two issues.
C15_Witness ==
    /\ lastMsg.type = "MouseMsg"
    /\ app.view = "List"
    /\ app.activeTab = "Active"
    /\ app.loading
    /\ Len(lastCmds) = 1 /\ lastCmds[1].tab = "Active"
    /\ Len(app.issues) = 2
    /\ app.listView.issues = app.issues

\* C16: in every reachable state, if a primary (non-append) issue-list
\* fetch for the active tab is outstanding, the loading flag is true.
C16_LoadingWhileFetchOutstanding ==
    (\E c \in inflight :
        c.op = "loadIssues" /\ c.cursor = "" /\ c.tab = app.activeTab)
        => app.loading

\* A successful issue-list response that replaces the list.
IsListReplaced(msg) ==
    msg.type = "IssuesLoadedMsg" /\ msg.err = NoErr /\ ~msg.append

\* C17: after a successful non-append issue-list response is dispatched,
\* the issue list is the sorted content of that response and the
\* pagination info is that response's, whichever fetches are outstanding
\* and in whatever order they were requested.
C17_LastCompletedResponseWins ==
    [][ IsListReplaced(lastMsg') =>
          /\ fate' = "ok"
          /\ IsPermutation(app'.issues, lastMsg'.issues)
          /\ OrderedByKey(app'.issues)
          /\ app'.pageInfo = lastMsg'.pageInfo ]_vars

\* The response of a fetch for another tab was dispatched while the fetch
\* for the active tab, requested after it, is still outstanding.
C17_Witness ==
    /\ IsListReplaced(lastMsg)
    /\ \E c \in inflight :
          c.op = "loadIssues" /\ c.cursor = "" /\ c.tab = app.activeTab
    /\ Len(app.issues) = 2
    /\ IsPermutation(app.issues, lastMsg.issues)
    /\ app.pageInfo = MorePage

(***************************************************************************)
(* Concurrent updates of one issue.                                        *)
(***************************************************************************)
\* The entries of a list that have the ID of a record.
ClaimEntriesOf(issueList, record) ==
    {issueList[i] : i \in {j \in DOMAIN issueList :
                              issueList[j].id = record.id}}

\* C18: when a successful update response for an issue is dispatched, the
\* displayed record of that issue (its list entry and, if it is the current
\* issue, the Detail view) is the record of that response, whichever other
\* update of the issue was requested or answered before; of two responses
\* the one dispatched last is displayed.
C18_LastUpdateResponseWins ==
    [][ IsUpdateSuccess(lastMsg') =>
          /\ fate' = "ok"
          /\ lastMsg'.issue.id \in Ids(app.issues) =>
                /\ ClaimEntriesOf(app'.issues, lastMsg'.issue)
                       = {lastMsg'.issue}
                /\ ClaimEntriesOf(app'.listView.issues, lastMsg'.issue)
                       = {lastMsg'.issue}
          /\ (app.currentIssue # NoIssue
                  /\ app.currentIssue.id = lastMsg'.issue.id) =>
                /\ app'.currentIssue = lastMsg'.issue
                /\ app'.detailView.issue = lastMsg'.issue ]_vars

\* Two updates of the current issue were requested, to completed and then
\* to started; the response of the second was dispatched first and is
\* displayed while the first is still outstanding.
C18_Witness ==
    /\ IsUpdateSuccess(lastMsg)
    /\ lastMsg.issue.state = "s_started"
    /\ \E c \in inflight :
          /\ c.op = "updateIssue" /\ c.id = lastMsg.issue.id
          /\ c.field = "stateId" /\ c.arg = "s_completed"
    /\ app.currentIssue = lastMsg.issue
    /\ lastMsg.issue \in Range(app.issues)

(***************************************************************************)
(* The Setup view and the forms.                                           *)
(***************************************************************************)
\* C19: with no credential the application starts in the Setup view with
\* loading false and no startup fetch, and no key, click or resize while
\* the view is Setup issues a network operation.
C19_SetupIssuesNoNetworkOperation ==
    /\ lastMsg = NoMsg => (app.view = "Setup" /\ ~app.loading)
    /\ app.view = "Setup" => (inflight = {} /\ lastCmds = <<>>)

\* A response to the submission of the form that is open.
IsFormResponse(msg) ==
    \/ msg.type = "IssueCreatedMsg" /\ app.view = "Create"
    \/ msg.type = "IssueUpdatedMsg" /\ app.view = "Edit"

\* C20: after the success response of a create-form or edit-form
\* submission is dispatched the active view is List; after a failure
\* response the view is unchanged and an error status message is set.
C20_FormSubmissionOutcome ==
    [][ IsFormResponse(lastMsg') =>
          IF lastMsg'.err = NoErr
          THEN fate' = "ok" /\ app'.view = "List"
          ELSE /\ fate' = "ok"
               /\ app'.view = app.view
               /\ app'.statusErr /\ app'.statusMsg # "" ]_vars

(***************************************************************************)
(* The help overlay.                                                       *)
(***************************************************************************)
\* The user has pressed a key on a terminal whose size is known.
IsKeyOnSizedWindow ==
    /\ pressed' # pressed
    /\ lastMsg'.type = "KeyMsg"
    /\ app.width > 0 /\ app.height > 0

\* C21: from any view, pressing '?' shows the help overlay and changes
\* nothing but the help flag; pressing '?' again or esc hides it, changes
\* nothing else (so the state is the one before help was opened), and the
\* key is not delivered to the underlying view.
C21_HelpToggleRoundTrip ==
    [][ IsKeyOnSizedWindow =>
          /\ (lastMsg'.key = "?" /\ ~app.showHelp) =>
                /\ app' = [app EXCEPT !.showHelp = TRUE]
                /\ lastCmds' = <<>> /\ fate' = "ok"
                /\ View(app') = "Help"
          /\ (lastMsg'.key \in {"?", "esc"} /\ app.showHelp) =>
                /\ app' = [app EXCEPT !.showHelp = FALSE]
                /\ lastCmds' = <<>> /\ fate' = "ok"
                /\ View(app') # "Help" ]_vars

(***************************************************************************)
(* The columns of the Kanban board.                                        *)
(***************************************************************************)
\* The state-type precedence of the issue sort, as the claim lists it.
ClaimTypePrecedence(type) ==
    CASE type = "started" -> 0
      [] type = "unstarted" -> 1
      [] type = "backlog" -> 2
      [] type = "completed" -> 4
      [] type = "canceled" -> 5
      [] OTHER -> 3

\* C22: the board has one column per workflow state of the catalog,
\* ordered by the state-type precedence of the issue sort (started,
\* unstarted, backlog, triage/unknown, completed, canceled) and, within one
\* type, by ascending position.
C22_ColumnsInSortPrecedence ==
    fnPc = "built" =>
        /\ Len(fnOut) = Len(fnIn)
        /\ {fnOut[i].state : i \in DOMAIN fnOut} = Range(fnIn)
        /\ \A i, j \in DOMAIN fnOut :
              i < j =>
                LET a == fnOut[i].state
                    b == fnOut[j].state
                IN  \/ ClaimTypePrecedence(a.type) < ClaimTypePrecedence(b.type)
                    \/ /\ ClaimTypePrecedence(a.type) = ClaimTypePrecedence(b.type)
                       /\ a.type = b.type => a.position <= b.position

(***************************************************************************)
(* The picker.                                                             *)
(***************************************************************************)
\* s is t with some elements left out, the rest in t's order.
RECURSIVE IsSubsequence(_, _)
IsSubsequence(s, t) ==
    IF s = <<>> THEN TRUE
    ELSE IF t = <<>> THEN FALSE
    ELSE IF Head(s) = Head(t) THEN IsSubsequence(Tail(s), Tail(t))
    ELSE IsSubsequence(s, Tail(t))

\* C23: appending a character to a picker's search text never increases
\* the number of visible candidates, the visible candidates are always a
\* subsequence of the original candidates, and with an empty search text
\* they are exactly the original candidates.
C23_TypingNarrowsCandidates ==
    [][ /\ (fnPage'.key \in PickerRunes
               /\ fnIn'.query = Append(fnIn.query, fnPage'.key)) =>
            Len(fnIn'.filteredItems) <= Len(fnIn.filteredItems)
        /\ IsSubsequence(fnIn'.filteredItems, fnIn'.items)
        /\ fnIn'.items = fnIn.items
        /\ fnIn'.query = <<>> => fnIn'.filteredItems = fnIn'.items ]_vars

\* A character typed after another has left fewer candidates than before,
\* but some.
C23_Witness ==
    /\ fnPc = "picker"
    /\ Len(fnIn.query) = 2
    /\ fnPage.key \in PickerRunes
    /\ fnIn.filteredItems # <<>>
    /\ Len(fnIn.filteredItems) < Len(FilterPickerItems(fnIn.items,
                                                       <<fnIn.query[1]>>))

\* The number of candidates a frame of the given height lists at most.
ClaimMaxVisible(height) == IF height - 10 > 5 THEN height - 10 ELSE 5

\* C29: in every picker state the cursor is a valid index into the
\* filtered candidates whenever there are any, no item is selected when
\* there are none, and the rendered window contains the cursor's item and
\* has exactly min(number of filtered candidates, maximum visible items)
\* entries.
C29_PickerCursorAndWindow ==
    fnPc = "picker" =>
        LET n == Len(fnIn.filteredItems)
            most == ClaimMaxVisible(fnPage.height)
        IN  /\ n > 0 => (fnIn.cursor >= 0 /\ fnIn.cursor < n)
            /\ n = 0 => PickerSelectedItem(fnIn) = NoItem
            /\ n > 0 => \E i \in DOMAIN fnOut :
                            fnOut[i] = fnIn.filteredItems[fnIn.cursor + 1]
            /\ Len(fnOut) = IF n < most THEN n ELSE most
            /\ IsSubsequence(fnOut, fnIn.filteredItems)

\* More candidates than the frame has room for, the cursor past the middle
\* of the window: the window has scrolled.
C29_Witness ==
    /\ fnPc = "picker"
    /\ Len(fnIn.filteredItems) = 7
    /\ fnPage.height = 12
    /\ fnIn.cursor = 4
    /\ fnOut[1] = fnIn.filteredItems[3]
    /\ Len(fnOut) = 5

(***************************************************************************)
(* The list view.                                                          *)
(***************************************************************************)
\* The page size of a list of height h, as the claim states it.
ClaimPageSize(h) == IF h - 2 < 1 THEN 10 ELSE h - 2

\* C26: a list model constructed from a sequence of issues with height h
\* holds exactly those issues, has cursor 0 and scroll offset 0, and has
\* page size h - 2 (or 10 when h - 2 is below 1); resizing recomputes the
\* page size by the same rule.
C26_NewListModelAndResize ==
    /\ fnPc = "new" =>
          /\ fnIn.issues = fnPage.issues
          /\ fnIn.cursor = 0 /\ fnIn.offset = 0
          /\ fnIn.pageSize = ClaimPageSize(fnPage.height)
    /\ fnPc = "resized" =>
          /\ fnIn.issues = fnPage.issues
          /\ fnIn.height = fnPage.height
          /\ fnIn.pageSize = ClaimPageSize(fnPage.height)

\* A list of three issues resized to a height with no room for a row: the
\* page size falls back to 10.
C26_Witness ==
    /\ fnPc = "resized"
    /\ Len(fnIn.issues) = 3
    /\ fnPage.height = 2
    /\ fnIn.pageSize = 10

\* C28: after any sequence of navigation keys on a List view the cursor
\* satisfies 0 <= cursor <= max(0, length - 1); on an empty list the
\* selected issue is none and the view renders the "No issues found"
\* placeholder.
C28_ListCursorInRange ==
    fnPc \in {"new", "navigated", "resized"} =>
        LET n == Len(fnIn.issues)
        IN  /\ fnIn.cursor >= 0
            /\ fnIn.cursor <= IF n - 1 > 0 THEN n - 1 ELSE 0
            /\ n = 0 => /\ ListSelectedIssue(fnIn) = NoIssue
                        /\ fnOut.placeholder = "No issues found"

(***************************************************************************)
(* The detail view.                                                        *)
(***************************************************************************)
\* The rendered lines show the text.
ClaimShows(lines, text) ==
    \E i \in DOMAIN lines : \E j \in DOMAIN lines[i] : lines[i][j].text = text

\* C24: the Detail view of an issue whose state is absent, whose assignee
\* is absent and whose description is empty is non-empty and contains the
\* fallback texts "Unknown", "Unassigned" and "No description".
C24_DetailShowsFallbackTexts ==
    (/\ fnPc \in {"new", "scrolled", "resized"}
     /\ fnIn.issue.state = NoState
     /\ fnIn.issue.assignee = NoUser
     /\ IssueDescription(fnIn.issue) = <<>>) =>
        /\ fnOut # <<>>
        /\ ClaimShows(fnOut, "Unknown")
        /\ ClaimShows(fnOut, "Unassigned")
        /\ ClaimShows(fnOut, "No description")

\* The amount by which the rendered content exceeds the viewport height.
ClaimMaxScroll(dv) ==
    IF Len(DetailView(dv)) > dv.height THEN Len(DetailView(dv)) - dv.height
    ELSE 0

\* C30: the Detail view's scroll offset always lies in [0, maxScroll],
\* maxScroll being the amount by which the rendered content exceeds the
\* viewport height; pressing down while the offset is below that bound
\* increases it by one.
C30_DetailScrollClamped ==
    [][ /\ fnIn'.scrollY >= 0
        /\ fnIn'.scrollY <= ClaimMaxScroll(fnIn')
        /\ (fnPage'.key \in {"down", "j"}
               /\ fnIn.scrollY < ClaimMaxScroll(fnIn)) =>
              fnIn'.scrollY = fnIn.scrollY + 1 ]_vars

(***************************************************************************)
(* The Kanban board with no columns.                                       *)
(***************************************************************************)
\* C27: when the Kanban view has zero columns, every key event delivered
\* to it is handled without crashing and leaves the Kanban model unchanged.
C27_EmptyBoardKeysHarmless ==
    [][ (/\ pressed' # pressed
         /\ lastMsg'.type = "KeyMsg"
         /\ app.view = "Kanban"
         /\ app.picker = NoPicker
         /\ app.kanbanView.columns = <<>>) =>
            /\ fate' = "ok"
            /\ app'.kanbanView = app.kanbanView ]_vars

(***************************************************************************)
(* Pagination, end to end.                                                 *)
(***************************************************************************)
\* The first page arrives while the list is loading.
IsFirstPageLoaded ==
    /\ lastMsg' = [IssuesLoadedOk(PagingFirstPage, MorePage)
                      EXCEPT !.append = FALSE]
    /\ pressed' = pressed
    /\ app.loading /\ app.activeTab = "MyIssues"

\* The user asks for more with the first page on the list.
IsLoadMoreAfterFirstPage ==
    /\ IsListKey("L")
    /\ Ids(app.issues) = {1, 2, 3}
    /\ app.pageInfo = MorePage
    /\ ~app.loadingMore

\* The second, last page arrives, fetched from the end of the first.
IsSecondPageLoaded ==
    /\ lastMsg' = [IssuesLoadedOk(PagingSecondPage, NoPageInfo)
                      EXCEPT !.append = TRUE]
    /\ pressed' = pressed
    /\ Ids(app.issues) = {1, 2, 3}

\* C25: starting with tab MyIssues and loading true, after a 3-issue page
\* with hasNextPage is dispatched the status reads "Loaded 3 issues (more
\* available, press L)"; the user's load-more then puts the fetch of the
\* next page in flight; after its 2-issue page without a next page (one
\* issue shared with page 1) is dispatched the list holds 4 unique issues
\* in sort order and the status reads "Loaded 4 total issues".
C25_PaginationEndToEnd ==
    [][ /\ IsFirstPageLoaded =>
              /\ Len(app'.issues) = 3
              /\ app'.statusMsg = "Loaded 3 issues (more available, press L)"
        /\ IsLoadMoreAfterFirstPage =>
              \E c \in inflight' :
                  c.op = "loadIssues" /\ c.cursor = MorePage.endCursor
        /\ IsSecondPageLoaded =>
              /\ Len(app'.issues) = 4
              /\ Ids(app'.issues) = {1, 2, 3, 4}
              /\ OrderedByKey(app'.issues)
              /\ app'.listView.issues = app'.issues
              /\ app'.statusMsg = "Loaded 4 total issues" ]_vars

\* C39: after any sequence of navigation keys and window resizes on a List
\* view with a non-empty list, the selected row lies inside the rendered
\* window: offset <= cursor < offset + pageSize, with 0 <= offset.
C39_SelectedRowInWindow ==
    (fnPc \in {"new", "navigated", "resized"} /\ Len(fnIn.issues) > 0) =>
        /\ 0 <= fnIn.offset
        /\ fnIn.offset <= fnIn.cursor
        /\ fnIn.cursor < fnIn.offset + fnIn.pageSize
        /\ \E i \in DOMAIN fnOut.rows : fnOut.rows[i].isSelected

(***************************************************************************)
(* Invariants of the orchestrator.                                         *)
(***************************************************************************)
\* C31: in every reachable state the orchestrator's issue list is in sort
\* order (sortIssues applied to it returns it unchanged), after any
\* sequence of loads, appends and patches.
C31_IssueListAlwaysSorted ==
    /\ OrderedByKey(app.issues)
    /\ sortIssues(app.issues) = app.issues

\* A patch has moved issue 2 from the head of the list to behind issue 1.
C31_Witness ==
    /\ IsUpdateSuccess(lastMsg)
    /\ lastMsg.issue.id = 2
    /\ Len(app.issues) = 2
    /\ app.issues[1].id = 1
    /\ app.issues[2] = lastMsg.issue

\* The view shows or edits the current issue.
ClaimNeedsIssue(m) == m.view \in {"Detail", "Edit"}

\* C32: in every reachable state, if the active view is Detail or EditForm
\* then a current issue is set; every transition that clears the current
\* issue also leaves the Detail and EditForm views.
C32_DetailAndEditHaveCurrentIssue ==
    /\ [](ClaimNeedsIssue(app) => app.currentIssue # NoIssue)
    /\ [][ (app.currentIssue # NoIssue /\ app'.currentIssue = NoIssue) =>
              ~ClaimNeedsIssue(app') ]_vars

\* The issue shown in the Detail view has been deleted: the current issue
\* is cleared and the view is the list.
C32_Witness ==
    /\ lastMsg.type = "IssueDeletedMsg"
    /\ lastMsg.err = NoErr
    /\ fate = "ok"
    /\ app.view = "List"
    /\ app.currentIssue = NoIssue
    /\ app.detailView.issue.id = lastMsg.issueID

\* C33: in every reachable state the loading-more flag is true only while
\* an append (load-more) fetch is outstanding.
C33_LoadingMoreOnlyWhileAppendOutstanding ==
    app.loadingMore =>
        \E c \in inflight : c.op = "loadIssues" /\ c.cursor # ""

\* The status messages a failure produces.
ClaimFailureTexts ==
    {"failed"} \cup
    {prefix \o e :
        prefix \in {"Error: ", "Error loading issues: ",
                    "Error loading workflow states: ",
                    "Error loading labels: ", "Error loading users: ",
                    "Error loading project issues: ",
                    "Error creating issue: ", "Error deleting issue: "},
        e \in RemoteErrors}

\* C34: the status error flag is true exactly when the current status
\* message was produced by a failure: a message set by a successful
\* operation is never displayed with the error marker, even when an earlier
\* operation failed.
C34_ErrorFlagMatchesStatusMessage ==
    app.statusMsg # "" =>
        (app.statusErr <=> app.statusMsg \in ClaimFailureTexts)

\* The form holds the values NewEditModel gave it: no field was changed.
ClaimFormUntouched ==
    \E f \in {NewEditModel(fnPage, TeamProjects, TeamStates, TeamUsers)} :
        /\ fnIn.selectedState = f.selectedState
        /\ fnIn.selectedPriority = f.selectedPriority
        /\ fnIn.selectedAssignee = f.selectedAssignee
        /\ fnIn.selectedProject = f.selectedProject

\* The payload leaves the field out or repeats the issue's value.
ClaimKeeps(payload, field, current) ==
    field \in DOMAIN payload => payload[field] = current

\* C35: submitting the edit form with no field changed yields a payload
\* whose state, priority, assignee and project do not differ from the
\* issue's current values, including when the issue's state, assignee or
\* project is not in the loaded catalogs.
C35_UntouchedFormKeepsValues ==
    (fnPc = "submitted" /\ ClaimFormUntouched) =>
        /\ ClaimKeeps(fnOut, "stateId", fnPage.state)
        /\ ClaimKeeps(fnOut, "priority", fnPage.priority)
        /\ ClaimKeeps(fnOut, "assigneeId", fnPage.assignee)
        /\ ClaimKeeps(fnOut, "projectId", fnPage.project)

\* The step dispatches the successful response of the update request c
\* while the EditForm is active.
IsUpdateAnsweredInEdit(c) ==
    /\ c.op = "updateIssue"
    /\ c \in inflight /\ c \notin inflight'
    /\ pressed' = pressed
    /\ lastMsg'.type = "IssueUpdatedMsg" /\ lastMsg'.err = NoErr
    /\ app.view = "Edit"

\* C36: a successful update response for an issue other than the one being
\* edited, dispatched while the EditForm is active, leaves the active view
\* EditForm; the form is left only by its own submission's success or by
\* esc.
C36_ForeignUpdateKeepsEditForm ==
    [][ \A c \in inflight :
           (IsUpdateAnsweredInEdit(c) /\ c.id # app.editView.issueID)
               => app'.view = "Edit" ]_vars

\* The step is a key press while the Kanban view is in move mode.
IsKeyInMoveMode ==
    /\ pressed' # pressed
    /\ lastMsg'.type = "KeyMsg"
    /\ app.view = "Kanban"
    /\ app.kanbanView.moveMode

\* C37: in Kanban move mode, esc cancels move mode, emits no request and
\* leaves the active view Kanban; no key issues a delete or any request
\* other than the move to the chosen column.
C37_MoveModeEscCancelsOnly ==
    [][ IsKeyInMoveMode =>
           /\ lastMsg'.key = "esc" =>
                 /\ app'.view = "Kanban"
                 /\ ~app'.kanbanView.moveMode
                 /\ lastCmds' = <<>>
           /\ \A i \in DOMAIN lastCmds' : lastCmds'[i].op = "moveIssueMsg"
      ]_vars

\* The step is a key press, other than the keys the overlay answers to,
\* while the help overlay is shown.
IsOtherKeyUnderHelp ==
    /\ pressed' # pressed
    /\ lastMsg'.type = "KeyMsg"
    /\ lastMsg'.key \notin {"?", "esc", "ctrl+c"}
    /\ app.showHelp

\* C38: while the help overlay is shown, no key other than '?', esc and
\* ctrl+c changes the application state or issues an asynchronous
\* operation.
C38_HelpOverlayIsModal ==
    [][ IsOtherKeyUnderHelp => (app' = app /\ lastCmds' = <<>>) ]_vars

\* The columns of the board kv that hold the issue.
ClaimColumnsOf(kv, issue) ==
    {c \in DOMAIN kv.columns :
        \E k \in DOMAIN kv.columns[c].issues : kv.columns[c].issues[k] = issue}

ClaimInCatalog(states, issue) ==
    issue.state # NoState /\ \E s \in DOMAIN states : states[s].id = issue.state

\* C40: in every Kanban state each issue given to the board is in at most
\* one column, and in exactly one if and only if its state is present and
\* is one of the catalog's states; every column's cursor is between 0 and
\* max(0, number of its issues - 1), and the active column is a valid
\* column whenever columns exist.
C40_BoardPartitionAndCursors ==
    fnPc \in {"new", "navigated"} =>
        /\ \A n \in DOMAIN fnPage.issues :
              /\ Cardinality(ClaimColumnsOf(fnIn, fnPage.issues[n])) <= 1
              /\ Cardinality(ClaimColumnsOf(fnIn, fnPage.issues[n])) = 1
                    <=> ClaimInCatalog(fnPage.states, fnPage.issues[n])
        /\ \A c \in DOMAIN fnIn.columns :
              /\ 0 <= fnIn.columns[c].cursor
              /\ \/ fnIn.columns[c].cursor = 0
                 \/ fnIn.columns[c].cursor <= Len(fnIn.columns[c].issues) - 1
        /\ Len(fnIn.columns) > 0 =>
              (0 <= fnIn.activeColumn /\ fnIn.activeColumn < Len(fnIn.columns))

\* The user has moved to another column and down a column; one issue given
\* to the board is in a column, one has no state, and one has a state that
\* is not in the catalog.
C40_Witness ==
    /\ fnPc = "navigated"
    /\ fnIn.activeColumn > 0
    /\ \E c \in DOMAIN fnIn.columns : fnIn.columns[c].cursor = 1
    /\ \E n \in DOMAIN fnPage.issues : fnPage.issues[n].state = NoState
    /\ \E n \in DOMAIN fnPage.issues :
          /\ fnPage.issues[n].state # NoState
          /\ ClaimColumnsOf(fnIn, fnPage.issues[n]) = {}
====
